---- MODULE Spec2Model ----
(***************************************************************************)
(* Model of the graph engine of llm-codemap: DependencyExtractor builds a  *)
(* node/edge graph from the facts of TypeScriptAnalyzer and filters it by  *)
(* the hints of the caller.                                                *)
(*                                                                         *)
(* Strings that the code takes apart (file paths, file hints) are tuples   *)
(* of one-character strings; Str turns them into the strings the code      *)
(* concatenates into node and edge ids.  A JavaScript Map is a sequence of *)
(* its values in insertion order (every value carries its key in .id).     *)
(***************************************************************************)
EXTENDS Integers, Sequences, FiniteSets, TLC

VARIABLES
  files,        \* analysisResult.files      : sequence of [path, calls]
  functions,    \* analysisResult.functions  : sequence of FunctionInfo
  classes,      \* analysisResult.classes    : sequence of ClassInfo
  imports,      \* analysisResult.imports    : sequence of ImportInfo
  hints,        \* the hint arguments of the last extractGraphData call
  nodeMap,      \* DependencyExtractor.nodeMap
  edgeMap,      \* DependencyExtractor.edgeMap
  fileToNodes,  \* DependencyExtractor.fileToNodes
  result,       \* the GraphData returned by the last pass
  prevResult,   \* the GraphData returned by the pass before it
  passes,       \* number of passes run on this engine (capped)
  workspaceFolders, \* vscode.workspace.workspaceFolders has a first folder
  params,       \* options.input of the current or last CodemapTool.invoke
  token,        \* token.isCancellationRequested of that invocation
  pc,           \* where that invocation is: idle, or the await it waits at
  viewGraphData,\* CodemapViewProvider._graphData
  toolResult,   \* the LanguageModelToolResult the last invocation returned
  console,      \* the console.warn lines of the last createGraphFromLLMSpec
  analysed,     \* the invocation has called analyzeWorkspace
  updated,      \* the invocation has called updateGraph
  graphAtStart, \* _graphData when the invocation started
  invocations,  \* number of invocations started (capped)
  webview,      \* CodemapViewProvider._view: none, live or disposed
  posted,       \* the messages posted to the webview _view refers to
  event,        \* the last call the view provider handled, and its graph
  refresh,      \* the codemap.refresh handler: its await, facts and graph
  walk          \* the expansion loop of the filter, iteration by iteration

engineVars == <<files, functions, classes, imports, hints, nodeMap, edgeMap,
                fileToNodes, result, prevResult, passes>>

viewVars == <<webview, posted, event>>

toolVars == <<workspaceFolders, params, token, pc, viewGraphData, toolResult,
              console, analysed, updated, graphAtStart, invocations,
              webview, posted, event, refresh, walk>>

vars == <<files, functions, classes, imports, hints, nodeMap, edgeMap,
          fileToNodes, result, prevResult, passes,
          workspaceFolders, params, token, pc, viewGraphData, toolResult,
          console, analysed, updated, graphAtStart, invocations,
          webview, posted, event, refresh, walk>>

-----------------------------------------------------------------------------
(* Bounds of the model *)

MaxFacts == 2
MaxHintCats == 2
MaxPasses == 2

-----------------------------------------------------------------------------
(* Strings *)

RECURSIVE Str(_)
Str(cs) == IF cs = <<>> THEN "" ELSE Head(cs) \o Str(Tail(cs))

P_a == <<"/", "a", ".", "t", "s">>
P_b == <<"/", "b", ".", "t", "s">>
P_c == <<"/", "c", ".", "t", "s">>
P_d == <<"/", "d", ".", "t", "s">>

\* String.prototype.endsWith
EndsWith(s, t) ==
  /\ Len(t) <= Len(s)
  /\ SubSeq(s, Len(s) - Len(t) + 1, Len(s)) = t

\* String.prototype.includes
Includes(s, t) ==
  \E i \in 0..(Len(s) - Len(t)) : SubSeq(s, i + 1, i + Len(t)) = t

\* path.isAbsolute (posix)
IsAbsolute(p) == Len(p) > 0 /\ p[1] = "/"

\* path.basename (posix) of a path without trailing separator
Basename(p) ==
  LET slashes == {i \in 1..Len(p) : p[i] = "/"}
  IN  IF slashes = {} THEN p
      ELSE SubSeq(p, (CHOOSE i \in slashes : \A j \in slashes : j <= i) + 1, Len(p))

\* path.dirname (posix) of a path without trailing separator
Dirname(p) ==
  LET slashes == {i \in 1..Len(p) : p[i] = "/"}
      last == CHOOSE i \in slashes : \A j \in slashes : j <= i
  IN  IF slashes = {} THEN <<".">>
      ELSE IF last = 1 THEN <<"/">>
      ELSE SubSeq(p, 1, last - 1)

\* the segments of a path between its separators, empty ones left out
RECURSIVE Segments(_, _, _)
Segments(p, i, cur) ==
  IF i > Len(p) THEN (IF cur = <<>> THEN <<>> ELSE <<cur>>)
  ELSE IF p[i] = "/"
       THEN (IF cur = <<>> THEN <<>> ELSE <<cur>>) \o Segments(p, i + 1, <<>>)
       ELSE Segments(p, i + 1, Append(cur, p[i]))

\* "." is dropped and ".." takes the segment before it away
RECURSIVE Collapse(_, _)
Collapse(segs, out) ==
  IF segs = <<>> THEN out
  ELSE IF Head(segs) = <<".">> THEN Collapse(Tail(segs), out)
  ELSE IF Head(segs) = <<".", ".">>
       THEN Collapse(Tail(segs),
                     IF out = <<>> THEN out ELSE SubSeq(out, 1, Len(out) - 1))
       ELSE Collapse(Tail(segs), Append(out, Head(segs)))

RECURSIVE JoinAbs(_)
JoinAbs(segs) ==
  IF segs = <<>> THEN <<>> ELSE <<"/">> \o Head(segs) \o JoinAbs(Tail(segs))

\* normalizePath(filePath, basePath) for an absolute basePath:
\* path.normalize(path.resolve(basePath, filePath))
normalizePath(filePath, basePath) ==
  LET whole == IF IsAbsolute(filePath) THEN filePath
               ELSE basePath \o <<"/">> \o filePath
      joined == JoinAbs(Collapse(Segments(whole, 1, <<>>), <<>>))
  IN  IF joined = <<>> THEN <<"/">> ELSE joined

\* the files fs.existsSync finds
Disk == {P_a, P_b}

Extensions ==
  << <<".", "t", "s">>, <<".", "t", "s", "x">>, <<".", "j", "s">>,
     <<".", "j", "s", "x">>, <<"/", "i", "n", "d", "e", "x", ".", "t", "s">>,
     <<"/", "i", "n", "d", "e", "x", ".", "j", "s">> >>

\* extractImportInfo, lines 787-803 of the analyzer: the module specifier
\* from, written in the file filePath, as the fact's from
ResolveSpecifier(from, filePath) ==
  LET resolvedPath == normalizePath(from, Dirname(filePath))
      probes == {i \in 1..Len(Extensions) : (resolvedPath \o Extensions[i]) \in Disk}
  IN  IF Len(from) > 0 /\ from[1] = "."
      THEN IF resolvedPath \in Disk \/ probes = {} THEN resolvedPath
           ELSE resolvedPath \o Extensions[CHOOSE i \in probes : \A j \in probes : i <= j]
      ELSE from

-----------------------------------------------------------------------------
(* Map helpers *)

MapHas(m, id) == \E i \in 1..Len(m) : m[i].id = id

MapIndex(m, id) == CHOOSE i \in 1..Len(m) : m[i].id = id

MapGet(m, id) == m[MapIndex(m, id)]

\* Map.prototype.set: a new key goes last, an existing key keeps its place
MapSet(m, v) ==
  IF MapHas(m, v.id) THEN [m EXCEPT ![MapIndex(m, v.id)] = v] ELSE Append(m, v)

\* this.fileToNodes.get(p) || []
FileNodes(f, p) == IF p \in DOMAIN f THEN f[p] ELSE <<>>

\* if (!has) set(p, []); get(p).push(id)
FilePush(f, p, id) ==
  IF p \in DOMAIN f THEN [f EXCEPT ![p] = Append(@, id)] ELSE f @@ (p :> <<id>>)

NoMeta == [kind |-> "none"]

-----------------------------------------------------------------------------
(* Node creation.  st = [n |-> nodeMap, e |-> edgeMap, f |-> fileToNodes]   *)

FileId(p) == "file:" \o Str(p)
FunctionId(p, name) == "function:" \o Str(p) \o ":" \o name
ClassId(p, name) == "class:" \o Str(p) \o ":" \o name
MethodId(p, cname, mname) == "method:" \o Str(p) \o ":" \o cname \o "." \o mname

createFileNode(st, filePath) ==
  LET nodeId == FileId(filePath)
      node == [id |-> nodeId, label |-> Str(Basename(filePath)), type |-> "file",
               filePath |-> filePath, line |-> 0, column |-> 0, parentId |-> "",
               metadata |-> [kind |-> "file", fullPath |-> filePath]]
  IN  IF ~MapHas(st.n, nodeId)
      THEN [st EXCEPT !.n = MapSet(st.n, node),
                      !.f = FilePush(st.f, filePath, nodeId)]
      ELSE st

\* createFunctionNode without the nodeMap.has test: a later fact overwrites
createFunctionNode_overwrite(st, func) ==
  LET nodeId == FunctionId(func.filePath, func.name)
      node == [id |-> nodeId, label |-> func.name, type |-> "function",
               filePath |-> func.filePath, line |-> func.line,
               column |-> func.column, parentId |-> FileId(func.filePath),
               metadata |-> [kind |-> "function", isExported |-> func.isExported]]
  IN  [st EXCEPT !.n = MapSet(st.n, node),
                 !.f = FilePush(st.f, func.filePath, nodeId)]

createFunctionNode(st, func) ==
  LET nodeId == FunctionId(func.filePath, func.name)
      node == [id |-> nodeId, label |-> func.name, type |-> "function",
               filePath |-> func.filePath, line |-> func.line,
               column |-> func.column, parentId |-> FileId(func.filePath),
               metadata |-> [kind |-> "function", isExported |-> func.isExported]]
  IN  IF ~MapHas(st.n, nodeId)
      THEN [st EXCEPT !.n = MapSet(st.n, node),
                      !.f = FilePush(st.f, func.filePath, nodeId)]
      ELSE st

createClassNode(st, cls) ==
  LET nodeId == ClassId(cls.filePath, cls.name)
      node == [id |-> nodeId, label |-> cls.name, type |-> "class",
               filePath |-> cls.filePath, line |-> cls.line,
               column |-> cls.column, parentId |-> FileId(cls.filePath),
               metadata |-> [kind |-> "class", isExported |-> cls.isExported,
                             extends |-> cls.extends,
                             implements |-> cls.implements]]
  IN  IF ~MapHas(st.n, nodeId)
      THEN [st EXCEPT !.n = MapSet(st.n, node),
                      !.f = FilePush(st.f, cls.filePath, nodeId)]
      ELSE st

createMethodNode(st, method, cls) ==
  LET nodeId == MethodId(method.filePath, cls.name, method.name)
      node == [id |-> nodeId, label |-> cls.name \o "." \o method.name,
               type |-> "method", filePath |-> method.filePath,
               line |-> method.line, column |-> method.column,
               parentId |-> ClassId(method.filePath, cls.name),
               metadata |-> [kind |-> "method", isStatic |-> method.isStatic]]
  IN  IF ~MapHas(st.n, nodeId)
      THEN [st EXCEPT !.n = MapSet(st.n, node)]
      ELSE st

-----------------------------------------------------------------------------
(* Loops *)

\* for (const x of s) acc = Op(acc, x)
RECURSIVE FoldSeq(_, _, _)
FoldSeq(Op(_, _), acc, s) ==
  IF s = <<>> THEN acc ELSE FoldSeq(Op, Op(acc, Head(s)), Tail(s))

\* the pairs <<a, b>> of two nested for-of loops, outer loop first
Pairs(as, bs) ==
  [k \in 1..(Len(as) * Len(bs)) |->
     <<as[((k - 1) \div Len(bs)) + 1], bs[((k - 1) % Len(bs)) + 1]>>]

-----------------------------------------------------------------------------
(* Lookups by label *)

NotFound == [found |-> FALSE, v |-> <<>>]

\* findFileByExport: the file path of the first node, in insertion order,
\* that is a file, function or class labelled exportName
findFileByExport(st, exportName) ==
  LET hits == {i \in 1..Len(st.n) :
                 /\ st.n[i].label = exportName
                 /\ st.n[i].type \in {"file", "function", "class"}}
  IN  IF hits = {} THEN NotFound
      ELSE [found |-> TRUE,
            v |-> st.n[CHOOSE i \in hits : \A j \in hits : i <= j].filePath]

\* findNodeByName whose loop does not stop at the first match
findNodeByName_last(st, name, type) ==
  LET hits == {i \in 1..Len(st.n) : st.n[i].label = name /\ st.n[i].type = type}
  IN  IF hits = {} THEN ""
      ELSE st.n[CHOOSE i \in hits : \A j \in hits : j <= i].id

\* findNodeByName: the id of the first node, in insertion order, with this
\* label and type ("" stands for undefined)
findNodeByName(st, name, type) ==
  LET hits == {i \in 1..Len(st.n) : st.n[i].label = name /\ st.n[i].type = type}
  IN  IF hits = {} THEN ""
      ELSE st.n[CHOOSE i \in hits : \A j \in hits : i <= j].id

-----------------------------------------------------------------------------
(* Edge creation *)

\* EdgeId with source and target the wrong way round
EdgeId_swapped(prefix, source, target) == prefix \o ":" \o target \o ":" \o source

\* the template literals of lines 580, 602, 662, 725, 743 and 770
EdgeId(prefix, source, target) == prefix \o ":" \o source \o ":" \o target

ImportEdge(source, target, importName, importInfo) ==
  [id |-> EdgeId("import", source, target), source |-> source,
   target |-> target, type |-> "import", label |-> importName,
   metadata |-> [kind |-> "import", isDefault |-> importInfo.isDefault,
                 isNamespace |-> importInfo.isNamespace]]

\* lines 598-619: an import edge from every node of the source file to
\* every node of the target file labelled importName
ImportElementEdge(st, pair, importName, importInfo) ==
  LET sourceNodeId == pair[1]
      targetNodeId == pair[2]
  IN  IF /\ MapHas(st.n, targetNodeId)
         /\ MapGet(st.n, targetNodeId).label = importName
         /\ ~MapHas(st.e, EdgeId("import", sourceNodeId, targetNodeId))
      THEN [st EXCEPT !.e = MapSet(st.e,
              ImportEdge(sourceNodeId, targetNodeId, importName, importInfo))]
      ELSE st

\* lines 564-627: the body of the loop over importInfo.imports.
\* sourceFileNodes is the array of fileToNodes when the key existed at
\* line 547 (live) and a local array otherwise.
ImportName(st, importName, importInfo, live, localNodes) ==
  LET targetFile == findFileByExport(st, importName)
      st1 == IF targetFile.v \notin DOMAIN st.f
             THEN createFileNode(st, targetFile.v) ELSE st
      targetNodes == FileNodes(st1.f, targetFile.v)
      sourceFileNodes == IF live THEN FileNodes(st1.f, importInfo.from)
                         ELSE localNodes
      sourceFileNodeId == sourceFileNodes[1]
      targetFileNodeId == FileId(targetFile.v)
      st2 == IF /\ MapHas(st1.n, sourceFileNodeId)
                /\ MapHas(st1.n, targetFileNodeId)
                /\ ~MapHas(st1.e, EdgeId("import", sourceFileNodeId, targetFileNodeId))
             THEN [st1 EXCEPT !.e = MapSet(st1.e,
                     ImportEdge(sourceFileNodeId, targetFileNodeId,
                                importName, importInfo))]
             ELSE st1
  IN  IF targetFile.found
      THEN FoldSeq(LAMBDA acc, pair :
                      ImportElementEdge(acc, pair, importName, importInfo),
                   st2, Pairs(sourceFileNodes, targetNodes))
      ELSE st

createImportEdges(st, importInfo) ==
  LET found == FileNodes(st.f, importInfo.from)
      live == importInfo.from \in DOMAIN st.f
      create == found = <<>> /\ ~MapHas(st.n, FileId(importInfo.from))
      st1 == IF create THEN createFileNode(st, importInfo.from) ELSE st
      sourceFileNodes == IF create THEN FileNodes(st1.f, importInfo.from)
                         ELSE found
  IN  IF sourceFileNodes = <<>> THEN st1
      ELSE FoldSeq(LAMBDA acc, importName :
                      ImportName(acc, importName, importInfo, live, sourceFileNodes),
                   st1, importInfo.imports)

\* findCallerNode that returns the first node registered for the file,
\* whatever its type
findCallerNode_anyNode(st, callNode) ==
  LET fileNodes == FileNodes(st.f, callNode.filePath)
  IN  IF fileNodes = <<>> THEN "" ELSE fileNodes[1]

\* findCallerNode: the first function node registered for the file of callNode
findCallerNode(st, callNode) ==
  LET fileNodes == FileNodes(st.f, callNode.filePath)
      hits == {i \in 1..Len(fileNodes) :
                 /\ MapHas(st.n, fileNodes[i])
                 /\ MapGet(st.n, fileNodes[i]).type = "function"}
  IN  IF hits = {} THEN ""
      ELSE fileNodes[CHOOSE i \in hits : \A j \in hits : i <= j]

\* lines 653-675: one call expression whose callee is named functionName
CallExpression(st, filePath, functionName) ==
  FoldSeq(LAMBDA acc, nodeId :
            LET callerNodeId == IF MapHas(acc.n, nodeId)
                                THEN findCallerNode(acc, MapGet(acc.n, nodeId))
                                ELSE ""
            IN  IF /\ MapHas(acc.n, nodeId)
                   /\ MapGet(acc.n, nodeId).label = functionName
                   /\ callerNodeId # ""
                   /\ ~MapHas(acc.e, EdgeId("call", callerNodeId, nodeId))
                THEN [acc EXCEPT !.e = MapSet(acc.e,
                        [id |-> EdgeId("call", callerNodeId, nodeId),
                         source |-> callerNodeId, target |-> nodeId,
                         type |-> "call", label |-> "calls",
                         metadata |-> NoMeta])]
                ELSE acc,
          st, FileNodes(st.f, filePath))

\* extractCallEdges: file.calls lists the callee names of the call
\* expressions of the source file in the order the visitor meets them
extractCallEdges(st, file) ==
  FoldSeq(LAMBDA acc, functionName : CallExpression(acc, file.path, functionName),
          st, file.calls)

\* lines 741-754 with the interface looked up among the class nodes
ImplementsEdge_amongClasses(st, classNodeId, interfaceName) ==
  LET implementsNodeId == findNodeByName(st, interfaceName, "class")
  IN  IF /\ implementsNodeId # ""
         /\ ~MapHas(st.e, EdgeId("implements", classNodeId, implementsNodeId))
      THEN [st EXCEPT !.e = MapSet(st.e,
              [id |-> EdgeId("implements", classNodeId, implementsNodeId),
               source |-> classNodeId, target |-> implementsNodeId,
               type |-> "implements", label |-> "implements",
               metadata |-> NoMeta])]
      ELSE st

\* lines 741-754: one interface name of the implements clause
ImplementsEdge(st, classNodeId, interfaceName) ==
  LET implementsNodeId == findNodeByName(st, interfaceName, "interface")
  IN  IF /\ implementsNodeId # ""
         /\ ~MapHas(st.e, EdgeId("implements", classNodeId, implementsNodeId))
      THEN [st EXCEPT !.e = MapSet(st.e,
              [id |-> EdgeId("implements", classNodeId, implementsNodeId),
               source |-> classNodeId, target |-> implementsNodeId,
               type |-> "implements", label |-> "implements",
               metadata |-> NoMeta])]
      ELSE st

\* createInheritanceEdges with the superclass id composed from the class's
\* own file instead of looked up
createInheritanceEdges_unchecked(st, cls) ==
  LET classNodeId == ClassId(cls.filePath, cls.name)
      extendsNodeId == ClassId(cls.filePath, cls.extends)
      st1 == IF /\ cls.extends # ""
                /\ ~MapHas(st.e, EdgeId("extends", classNodeId, extendsNodeId))
             THEN [st EXCEPT !.e = MapSet(st.e,
                     [id |-> EdgeId("extends", classNodeId, extendsNodeId),
                      source |-> classNodeId, target |-> extendsNodeId,
                      type |-> "extends", label |-> "extends",
                      metadata |-> NoMeta])]
             ELSE st
  IN  FoldSeq(LAMBDA acc, interfaceName :
                ImplementsEdge(acc, classNodeId, interfaceName),
              st1, cls.implements)

\* lines 718-756
createInheritanceEdges(st, cls) ==
  LET classNodeId == ClassId(cls.filePath, cls.name)
      extendsNodeId == findNodeByName(st, cls.extends, "class")
      st1 == IF /\ cls.extends # ""
                /\ extendsNodeId # ""
                /\ ~MapHas(st.e, EdgeId("extends", classNodeId, extendsNodeId))
             THEN [st EXCEPT !.e = MapSet(st.e,
                     [id |-> EdgeId("extends", classNodeId, extendsNodeId),
                      source |-> classNodeId, target |-> extendsNodeId,
                      type |-> "extends", label |-> "extends",
                      metadata |-> NoMeta])]
             ELSE st
  IN  FoldSeq(LAMBDA acc, interfaceName :
                ImplementsEdge(acc, classNodeId, interfaceName),
              st1, cls.implements)

\* createParentChildEdges that links file nodes to their children only
createParentChildEdges_filesOnly(st) ==
  FoldSeq(LAMBDA acc, node :
            IF /\ node.parentId # ""
               /\ MapHas(acc.n, node.parentId)
               /\ MapGet(acc.n, node.parentId).type = "file"
               /\ ~MapHas(acc.e, "parent" \o ":" \o node.parentId \o ":" \o node.id)
            THEN [acc EXCEPT !.e = MapSet(acc.e,
                    [id |-> "parent" \o ":" \o node.parentId \o ":" \o node.id,
                     source |-> node.parentId, target |-> node.id,
                     type |-> "reference", label |-> "contains",
                     metadata |-> [kind |-> "parent",
                                   relationship |-> "parent-child"]])]
            ELSE acc,
          st, st.n)

\* createParentChildEdges: the loop walks nodeMap, which it does not change
createParentChildEdges(st) ==
  FoldSeq(LAMBDA acc, node :
            IF /\ node.parentId # ""
               /\ MapHas(acc.n, node.parentId)
               /\ ~MapHas(acc.e, EdgeId("parent", node.parentId, node.id))
            THEN [acc EXCEPT !.e = MapSet(acc.e,
                    [id |-> EdgeId("parent", node.parentId, node.id),
                     source |-> node.parentId, target |-> node.id,
                     type |-> "reference", label |-> "contains",
                     metadata |-> [kind |-> "parent",
                                   relationship |-> "parent-child"]])]
            ELSE acc,
          st, st.n)

-----------------------------------------------------------------------------
(* The context filter *)

Range(s) == {s[i] : i \in 1..Len(s)}

\* Set.prototype.add on an insertion-ordered set kept as a sequence
SetAdd(s, x) == IF x \in Range(s) THEN s ELSE Append(s, x)

\* the first index of s whose element has the least length (stable sort by
\* length, then element 0)
ShortestIndex(s) ==
  CHOOSE i \in 1..Len(s) :
    /\ \A j \in 1..Len(s) : Len(s[i]) <= Len(s[j])
    /\ \A j \in 1..(i - 1) : Len(s[j]) > Len(s[i])

findTargetFilePath(targetFile, fs) ==
  LET paths == [i \in 1..Len(fs) |-> fs[i].path]
      fileName == Basename(targetFile)
      matchingFiles == SelectSeq(paths,
                         LAMBDA q : Basename(q) = fileName \/ EndsWith(q, targetFile))
      loose == {i \in 1..Len(paths) :
                  EndsWith(paths[i], targetFile) \/ Includes(paths[i], targetFile)}
  IN  IF IsAbsolute(targetFile)
      THEN IF targetFile \in Range(paths)
           THEN [found |-> TRUE, v |-> targetFile] ELSE NotFound
      ELSE IF Len(matchingFiles) = 1
           THEN [found |-> TRUE, v |-> matchingFiles[1]]
      ELSE IF Len(matchingFiles) > 1
           THEN [found |-> TRUE, v |-> matchingFiles[ShortestIndex(matchingFiles)]]
      ELSE IF loose # {}
           THEN [found |-> TRUE,
                 v |-> paths[CHOOSE i \in loose : \A j \in loose : i <= j]]
      ELSE NotFound

IdsOf(list) == {list[i].id : i \in 1..Len(list)}

\* r.add(x) for every x of xs, in order
AddAll(r, xs) == FoldSeq(LAMBDA acc, x : SetAdd(acc, x), r, xs)

\* FocusSeeds with the focus ids never added
FocusSeeds_none(r, graphData, h) == r

\* lines 146-156.  r is relatedNodeIds, an insertion-ordered set
FocusSeeds(r, graphData, h) ==
  IF h.focusNodes.some
  THEN FoldSeq(LAMBDA acc, nodeId :
                 IF nodeId \in IdsOf(graphData.nodes) THEN SetAdd(acc, nodeId) ELSE acc,
               r, h.focusNodes.v)
  ELSE r

\* lines 158-166 (an empty string is falsy)
TargetFileSeeds(r, facts, h) ==
  LET targetFilePath == findTargetFilePath(h.targetFile.v, facts.files)
  IN  IF h.targetFile.some /\ h.targetFile.v # <<>> /\ targetFilePath.found
      THEN SetAdd(r, FileId(targetFilePath.v)) ELSE r

\* the ids of the nodes of graphData whose filePath is p, in list order
NodeIdsOfFile(graphData, p) ==
  LET inFile == SelectSeq(graphData.nodes, LAMBDA n : n.filePath = p)
  IN  [i \in 1..Len(inFile) |-> inFile[i].id]

\* lines 168-184
RelatedFileSeeds(r, graphData, facts, h) ==
  IF h.relatedFiles.some
  THEN FoldSeq(LAMBDA acc, file :
                 LET filePath == findTargetFilePath(file, facts.files)
                 IN  IF filePath.found
                     THEN AddAll(SetAdd(acc, FileId(filePath.v)),
                                 NodeIdsOfFile(graphData, filePath.v))
                     ELSE acc,
               r, h.relatedFiles.v)
  ELSE r

\* FunctionHintInFile that builds the ids from the hint as given
FunctionHintInFile_unresolved(r, graphData, facts, func) ==
  LET filePath == findTargetFilePath(func.filePath, facts.files)
      funcNodeId == FunctionId(func.filePath, func.name)
  IN  IF filePath.found /\ MapHas(graphData.nodes, funcNodeId)
      THEN SetAdd(SetAdd(r, funcNodeId), FileId(func.filePath))
      ELSE r

\* lines 191-209: a function hint with a file path
FunctionHintInFile(r, graphData, facts, func) ==
  LET filePath == findTargetFilePath(func.filePath, facts.files)
      funcNodeId == FunctionId(filePath.v, func.name)
  IN  IF filePath.found /\ MapHas(graphData.nodes, funcNodeId)
      THEN SetAdd(SetAdd(r, funcNodeId), FileId(filePath.v))
      ELSE r

\* lines 210-223: a function hint without a file path
FunctionHintByName(r, facts, func) ==
  FoldSeq(LAMBDA acc, analysisFunc :
            IF analysisFunc.name = func.name
            THEN SetAdd(SetAdd(acc, FunctionId(analysisFunc.filePath, analysisFunc.name)),
                        FileId(analysisFunc.filePath))
            ELSE acc,
          r, facts.functions)

\* lines 186-225
RelatedFunctionSeeds(r, graphData, facts, h) ==
  IF h.relatedFunctions.some
  THEN FoldSeq(LAMBDA acc, func :
                 IF func.filePath # <<>>
                 THEN FunctionHintInFile(acc, graphData, facts, func)
                 ELSE FunctionHintByName(acc, facts, func),
               r, h.relatedFunctions.v)
  ELSE r

\* lines 243-245 and 258-260
MethodSeeds(r, analysisClass, name) ==
  FoldSeq(LAMBDA acc, method :
            SetAdd(acc, MethodId(method.filePath, name, method.name)),
          r, analysisClass.methods)

\* lines 232-249: a class hint with a file path
ClassHintInFile(r, graphData, facts, cls) ==
  LET filePath == findTargetFilePath(cls.filePath, facts.files)
      classNodeId == ClassId(filePath.v, cls.name)
  IN  IF filePath.found /\ MapHas(graphData.nodes, classNodeId)
      THEN FoldSeq(LAMBDA acc, analysisClass :
                     IF /\ analysisClass.filePath = filePath.v
                        /\ analysisClass.name = cls.name
                     THEN MethodSeeds(acc, analysisClass, cls.name)
                     ELSE acc,
                   SetAdd(SetAdd(r, classNodeId), FileId(filePath.v)),
                   facts.classes)
      ELSE r

\* lines 250-263: a class hint without a file path
ClassHintByName(r, facts, cls) ==
  FoldSeq(LAMBDA acc, analysisClass :
            IF analysisClass.name = cls.name
            THEN MethodSeeds(
                   SetAdd(SetAdd(acc, ClassId(analysisClass.filePath, analysisClass.name)),
                          FileId(analysisClass.filePath)),
                   analysisClass, cls.name)
            ELSE acc,
          r, facts.classes)

\* lines 227-265
RelatedClassSeeds(r, graphData, facts, h) ==
  IF h.relatedClasses.some
  THEN FoldSeq(LAMBDA acc, cls :
                 IF cls.filePath # <<>>
                 THEN ClassHintInFile(acc, graphData, facts, cls)
                 ELSE ClassHintByName(acc, facts, cls),
               r, h.relatedClasses.v)
  ELSE r

\* lines 144-265: relatedNodeIds before the traversal
SeedSet(graphData, facts, h) ==
  RelatedClassSeeds(
    RelatedFunctionSeeds(
      RelatedFileSeeds(
        TargetFileSeeds(FocusSeeds(<<>>, graphData, h), facts, h),
        graphData, facts, h),
      graphData, facts, h),
    graphData, facts, h)

\* ReachEnd that records the other end as related and never queues it
ReachEnd_noQueue(w, other, graphData) ==
  IF other \notin w.done
  THEN [w EXCEPT !.related = SetAdd(@, other)]
  ELSE w

\* lines 286-298 and 303-315: the other end of an edge at currentNodeId.
\* w = [related, todo, done]: relatedNodeIds, nodesToProcess, processedNodes
ReachEnd(w, other, graphData) ==
  IF other \notin w.done
  THEN LET w1 == [w EXCEPT !.todo = SetAdd(@, other), !.related = SetAdd(@, other)]
           fileNodeId == FileId(MapGet(graphData.nodes, other).filePath)
       IN  IF MapHas(graphData.nodes, other) /\ fileNodeId \notin w.done
           THEN [w1 EXCEPT !.todo = SetAdd(@, fileNodeId)]
           ELSE w1
  ELSE w

\* VisitEdge that follows an edge from its source to its target only
VisitEdge_forward(w, edge, currentNodeId, graphData) ==
  IF edge.source = currentNodeId
  THEN ReachEnd(w, edge.target, graphData) ELSE w

\* lines 284-317: one edge seen from currentNodeId
VisitEdge(w, edge, currentNodeId, graphData) ==
  LET w1 == IF edge.source = currentNodeId
            THEN ReachEnd(w, edge.target, graphData) ELSE w
  IN  IF edge.target = currentNodeId
      THEN ReachEnd(w1, edge.source, graphData) ELSE w1

\* TraverseStep that never records the current id as processed
TraverseStep_forgetful(w, graphData) ==
  LET currentNodeId == Head(w.todo)
      w0 == [w EXCEPT !.todo = Tail(@)]
      w1 == [w0 EXCEPT !.related = SetAdd(@, currentNodeId)]
      w2 == FoldSeq(LAMBDA acc, edge :
                      VisitEdge(acc, edge, currentNodeId, graphData),
                    w1, graphData.edges)
      parentId == MapGet(graphData.nodes, currentNodeId).parentId
  IN  IF /\ MapHas(graphData.nodes, currentNodeId)
         /\ parentId # ""
         /\ parentId \notin w2.done
      THEN [w2 EXCEPT !.todo = SetAdd(@, parentId)]
      ELSE w2

\* lines 273-323: one iteration of the while loop, nodesToProcess not empty
TraverseStep(w, graphData) ==
  LET currentNodeId == Head(w.todo)
      w0 == [w EXCEPT !.todo = Tail(@)]
      w1 == [w0 EXCEPT !.done = @ \cup {currentNodeId},
                       !.related = SetAdd(@, currentNodeId)]
      w2 == FoldSeq(LAMBDA acc, edge :
                      VisitEdge(acc, edge, currentNodeId, graphData),
                    w1, graphData.edges)
      parentId == MapGet(graphData.nodes, currentNodeId).parentId
      w3 == IF /\ MapHas(graphData.nodes, currentNodeId)
               /\ parentId # ""
               /\ parentId \notin w2.done
            THEN [w2 EXCEPT !.todo = SetAdd(@, parentId)]
            ELSE w2
  IN  IF currentNodeId \in w.done THEN w0 ELSE w3

\* lines 272-324: the while loop
RECURSIVE Traverse(_, _)
Traverse(w, graphData) ==
  IF w.todo = <<>> THEN w
  ELSE Traverse(TraverseStep(w, graphData), graphData)

\* lines 326-336: the nodes of every file whose file node is related; the
\* loop walks a copy of relatedNodeIds
FileClosure(related, graphData) ==
  FoldSeq(LAMBDA acc, nodeId :
            IF /\ MapHas(graphData.nodes, nodeId)
               /\ MapGet(graphData.nodes, nodeId).type = "file"
            THEN AddAll(acc,
                   SelectSeq(NodeIdsOfFile(graphData,
                                           MapGet(graphData.nodes, nodeId).filePath),
                             LAMBDA childId : childId # nodeId))
            ELSE acc,
          related, related)

\* RelatedNodeIds without the traversal and the file closure
RelatedNodeIds_seedsOnly(graphData, facts, h) == SeedSet(graphData, facts, h)

\* lines 267-337: relatedNodeIds after traversal and file closure
RelatedNodeIds(graphData, facts, h) ==
  LET seeds == SeedSet(graphData, facts, h)
  IN  IF Len(seeds) > 0
      THEN FileClosure(Traverse([related |-> seeds, todo |-> seeds,
                                 done |-> {}], graphData).related, graphData)
      ELSE seeds

\* filterGraphByLLMContext with the edge list passed through unfiltered
filterGraphByLLMContext_keepEdges(graphData, facts, h) ==
  LET relatedNodeIds == Range(RelatedNodeIds(graphData, facts, h))
  IN  [nodes |-> SelectSeq(graphData.nodes, LAMBDA n : n.id \in relatedNodeIds),
       edges |-> graphData.edges]

\* lines 339-353 and 381-384
filterGraphByLLMContext(graphData, facts, h) ==
  LET relatedNodeIds == Range(RelatedNodeIds(graphData, facts, h))
  IN  [nodes |-> SelectSeq(graphData.nodes, LAMBDA n : n.id \in relatedNodeIds),
       edges |-> SelectSeq(graphData.edges,
                   LAMBDA e : e.source \in relatedNodeIds /\ e.target \in relatedNodeIds)]

-----------------------------------------------------------------------------
(* extractGraphData *)

\* ClearMaps with nodeMap.clear() left out
ClearMaps_keepNodes(st) == [n |-> st.n, e |-> <<>>, f |-> <<>>]

\* lines 46-48
ClearMaps(st) == [n |-> <<>>, e |-> <<>>, f |-> <<>>]

\* lines 66-70
createMethodNodes(st, cls) ==
  FoldSeq(LAMBDA acc, method : createMethodNode(acc, method, cls), st, cls.methods)

\* BuildGraph on the maps as the pass before left them
BuildGraph_noClear(st, facts) ==
  LET st1 == FoldSeq(LAMBDA acc, file : createFileNode(acc, file.path), st, facts.files)
      st2 == FoldSeq(createFunctionNode, st1, facts.functions)
      st3 == FoldSeq(createClassNode, st2, facts.classes)
      st4 == FoldSeq(createMethodNodes, st3, facts.classes)
      st5 == FoldSeq(createImportEdges, st4, facts.imports)
      st6 == FoldSeq(extractCallEdges, st5, facts.files)
      st7 == FoldSeq(createInheritanceEdges, st6, facts.classes)
  IN  createParentChildEdges(st7)

\* lines 46-95: the maps after the build steps 1-8
BuildGraph(st, facts) ==
  LET st0 == ClearMaps(st)
      st1 == FoldSeq(LAMBDA acc, file : createFileNode(acc, file.path), st0, facts.files)
      st2 == FoldSeq(createFunctionNode, st1, facts.functions)
      st3 == FoldSeq(createClassNode, st2, facts.classes)
      st4 == FoldSeq(createMethodNodes, st3, facts.classes)
      st5 == FoldSeq(createImportEdges, st4, facts.imports)
      st6 == FoldSeq(extractCallEdges, st5, facts.files)
      st7 == FoldSeq(createInheritanceEdges, st6, facts.classes)
  IN  createParentChildEdges(st7)

\* the files whose syntax tree is nested deeper than the call stack allows
\* the recursive visit of extractCallEdges to descend
DeepSources == {P_d}

\* lines 638-682: visit(sourceFile) ends in a RangeError, which nothing in
\* extractCallEdges or extractGraphData catches
Overflows(file) == file.path \in DeepSources

Throws(facts) == \E i \in 1..Len(facts.files) : Overflows(facts.files[i])

\* lines 46-87 when a call walk throws: steps 1-5, then the call edges of
\* the files up to the first one that overflows, whose calls are those met
\* before the stack ran out
BuildGraphUntilThrow(st, facts) ==
  LET st0 == ClearMaps(st)
      st1 == FoldSeq(LAMBDA acc, file : createFileNode(acc, file.path), st0, facts.files)
      st2 == FoldSeq(createFunctionNode, st1, facts.functions)
      st3 == FoldSeq(createClassNode, st2, facts.classes)
      st4 == FoldSeq(createMethodNodes, st3, facts.classes)
      st5 == FoldSeq(createImportEdges, st4, facts.imports)
      first == CHOOSE i \in 1..Len(facts.files) :
                 /\ Overflows(facts.files[i])
                 /\ \A j \in 1..(i - 1) : ~Overflows(facts.files[j])
  IN  FoldSeq(extractCallEdges, st5, SubSeq(facts.files, 1, first))

\* lines 97-100
GraphOf(st) == [nodes |-> st.n, edges |-> st.e]

\* HintsGiven with an empty array counted as no hint
HintsGiven_nonEmpty(h) ==
  \/ h.targetFile.some /\ h.targetFile.v # <<>>
  \/ h.relatedFiles.some /\ h.relatedFiles.v # <<>>
  \/ h.relatedFunctions.some /\ h.relatedFunctions.v # <<>>
  \/ h.relatedClasses.some /\ h.relatedClasses.v # <<>>
  \/ h.focusNodes.some /\ h.focusNodes.v # <<>>

\* line 103: a non-empty string or any array is truthy
HintsGiven(h) ==
  \/ h.targetFile.some /\ h.targetFile.v # <<>>
  \/ h.relatedFiles.some
  \/ h.relatedFunctions.some
  \/ h.relatedClasses.some
  \/ h.focusNodes.some

\* ResultOf with the filter applied whatever the hints are
ResultOf_alwaysFilter(st, facts, h) ==
  filterGraphByLLMContext(GraphOf(st), facts, h)

\* lines 97-121
ResultOf(st, facts, h) ==
  IF HintsGiven(h) THEN filterGraphByLLMContext(GraphOf(st), facts, h)
  ELSE GraphOf(st)

-----------------------------------------------------------------------------
(* Inputs *)

\* the files of the workspace in the order findFiles lists them
Paths == <<P_a, P_b>>
Bare == <<"f", "o", "o">>
S_b == <<".", "/", "b">>
Specifiers == {S_b, Bare}
FunctionNames == {"foo", "Animal"}
ImportLists == {<<"foo">>, <<"Animal", "foo">>}
Callees == {"foo", "Dog"}
CallFiles == {P_b}

\* class declarations: name, heritage clauses and method names
ClassDecls ==
  { [name |-> "Animal", extends |-> "", implements |-> <<>>, methods |-> <<>>],
    [name |-> "Dog", extends |-> "Animal", implements |-> <<"Animal">>,
     methods |-> <<"run">>],
    [name |-> "Animal", extends |-> "Animal", implements |-> <<>>,
     methods |-> <<"run", "run">>] }

None == [some |-> FALSE, v |-> <<>>]
Some(x) == [some |-> TRUE, v |-> x]

NoHints == [targetFile |-> None, relatedFiles |-> None, relatedFunctions |-> None,
            relatedClasses |-> None, focusNodes |-> None]

\* options.input with no field given
NoParams == [workspacePath |-> FALSE, nodes |-> None, edges |-> None,
             hints |-> NoHints]

H_a == <<"a", ".", "t", "s">>
H_b == <<"b", ".", "t", "s">>

TargetFileHints == {None, Some(H_a), Some(P_c)}
RelatedFilesHints == {None, Some(<<>>), Some(<<H_b>>)}
RelatedFunctionsHints ==
  {None, Some(<<[name |-> "foo", filePath |-> H_b]>>),
         Some(<<[name |-> "foo", filePath |-> <<>>]>>)}
RelatedClassesHints ==
  {None, Some(<<[name |-> "Dog", filePath |-> <<>>]>>),
         Some(<<[name |-> "Animal", filePath |-> H_a]>>)}
FocusNodesHints ==
  {None, Some(<<"ghost">>), Some(<<FunctionId(P_b, "foo")>>),
         Some(<<MethodId(P_a, "Dog", "run"), "ghost">>)}

HintCats(h) ==
  Cardinality({c \in {"targetFile", "relatedFiles", "relatedFunctions",
                      "relatedClasses", "focusNodes"} : h[c].some})

HintChoices ==
  {h \in [targetFile : TargetFileHints, relatedFiles : RelatedFilesHints,
          relatedFunctions : RelatedFunctionsHints,
          relatedClasses : RelatedClassesHints, focusNodes : FocusNodesHints] :
     HintCats(h) <= MaxHintCats}

-----------------------------------------------------------------------------
(* State machine *)

Facts == [files |-> files, functions |-> functions, classes |-> classes,
          imports |-> imports]

Engine == [n |-> nodeMap, e |-> edgeMap, f |-> fileToNodes]

EmptyGraph == [nodes |-> <<>>, edges |-> <<>>]

\* _graphData before the first updateGraph
NoGraph == [some |-> FALSE, v |-> EmptyGraph]

\* no call of the view provider yet; graph is the argument of the last
\* updateGraph call from outside the provider, once one is given
NoEvent == [type |-> "none", given |-> FALSE, graph |-> EmptyGraph]

UpdateEvent(graphData) == [type |-> "updateGraph", given |-> TRUE, graph |-> graphData]

\* the refresh command is not running
NoRefresh == [pc |-> "idle",
              facts |-> [files |-> <<>>, functions |-> <<>>, classes |-> <<>>,
                         imports |-> <<>>],
              graph |-> EmptyGraph,
              runs |-> 0]

\* the filter is not running
NoWalk == [graph |-> EmptyGraph, related |-> <<>>, todo |-> <<>>, done |-> {}]

\* transformNode and getNodeGroup of the graph data transformer
transformNode(node) ==
  [id |-> node.id, label |-> node.label, type |-> node.type,
   group |-> CASE node.type = "file" -> 1
               [] node.type = "function" -> 2
               [] node.type = "class" -> 3
               [] node.type = "method" -> 4
               [] node.type = "interface" -> 5
               [] node.type = "type" -> 6
               [] node.type = "variable" -> 7
               [] OTHER -> 0,
   filePath |-> node.filePath, line |-> node.line, column |-> node.column,
   metadata |-> node.metadata]

\* transformLink and getEdgeValue
transformLink(edge) ==
  [source |-> edge.source, target |-> edge.target, type |-> edge.type,
   label |-> edge.label,
   value |-> CASE edge.type = "call" -> 2
               [] edge.type = "extends" -> 3
               [] edge.type = "implements" -> 2
               [] OTHER -> 1]

transformToD3Format(graphData) ==
  [nodes |-> [i \in 1..Len(graphData.nodes) |-> transformNode(graphData.nodes[i])],
   links |-> [i \in 1..Len(graphData.edges) |-> transformLink(graphData.edges[i])]]

\* updateGraph that returns before recording the graph when no view has
\* been resolved
updateGraph_viewFirst(graphData) ==
  /\ viewGraphData' = IF webview = "none" THEN viewGraphData
                      ELSE [some |-> TRUE, v |-> graphData]
  /\ posted' = IF webview = "live"
               THEN Append(posted, [type |-> "updateGraph",
                                    data |-> transformToD3Format(graphData)])
               ELSE posted

\* CodemapViewProvider.updateGraph: _graphData is set before _view is
\* tested; postMessage on a disposed webview throws into the catch of
\* line 124
updateGraph(graphData) ==
  /\ viewGraphData' = [some |-> TRUE, v |-> graphData]
  /\ posted' = IF webview = "live"
               THEN Append(posted, [type |-> "updateGraph",
                                    data |-> transformToD3Format(graphData)])
               ELSE posted

FactCount ==
  Len(functions) + Len(classes) + Len(imports)
    + Len(FoldSeq(LAMBDA acc, file : acc \o file.calls, <<>>, files))

FileIndex(p) == CHOOSE i \in 1..Len(files) : files[i].path = p

IsListed(p) == \E i \in 1..Len(files) : files[i].path = p

\* analyzeSourceFile is run file by file, so each fact list is in file order
InFileOrder(list, p) ==
  IF list = <<>> THEN TRUE
  ELSE FileIndex(list[Len(list)].filePath) <= FileIndex(p)

Init ==
  /\ files = <<>>
  /\ functions = <<>>
  /\ classes = <<>>
  /\ imports = <<>>
  /\ hints = NoHints
  /\ nodeMap = <<>>
  /\ edgeMap = <<>>
  /\ fileToNodes = <<>>
  /\ result = EmptyGraph
  /\ prevResult = EmptyGraph
  /\ passes = 0
  /\ workspaceFolders = TRUE
  /\ params = NoParams
  /\ token = FALSE
  /\ pc = "idle"
  /\ viewGraphData = NoGraph
  /\ toolResult = "none"
  /\ console = <<>>
  /\ analysed = FALSE
  /\ updated = FALSE
  /\ graphAtStart = NoGraph
  /\ invocations = 0
  /\ webview = "none"
  /\ posted = <<>>
  /\ event = NoEvent
  /\ refresh = NoRefresh
  /\ walk = NoWalk

\* analyzeWorkspace: fileInfos.push({path, content}), in the order of Paths;
\* every file is read before the first one is analysed
ReadFile(p) ==
  /\ passes = 0
  /\ functions = <<>> /\ classes = <<>> /\ imports = <<>>
  /\ \A i \in 1..Len(files) : files[i].calls = <<>>
  /\ Len(files) < Len(Paths)
  /\ p = Paths[Len(files) + 1]
  /\ files' = Append(files, [path |-> p, calls |-> <<>>])
  /\ UNCHANGED <<functions, classes, imports, hints, nodeMap, edgeMap,
                 fileToNodes, result, prevResult, passes>>
  /\ UNCHANGED toolVars

\* analyzeSourceFile: functions.push(funcInfo)
VisitFunction(p, name) ==
  /\ passes = 0
  /\ FactCount < MaxFacts
  /\ IsListed(p)
  /\ InFileOrder(functions, p)
  /\ functions' = Append(functions,
       [name |-> name, filePath |-> p, line |-> Len(functions) + 1,
        column |-> 1, isExported |-> (Len(functions) = 0)])
  /\ UNCHANGED <<files, classes, imports, hints, nodeMap, edgeMap,
                 fileToNodes, result, prevResult, passes>>
  /\ UNCHANGED toolVars

\* analyzeSourceFile: classes.push(classInfo)
VisitClass(p, decl) ==
  /\ passes = 0
  /\ FactCount < MaxFacts
  /\ IsListed(p)
  /\ InFileOrder(classes, p)
  /\ classes' = Append(classes,
       [name |-> decl.name, filePath |-> p, line |-> Len(classes) + 1,
        column |-> 1, isExported |-> (Len(classes) = 0),
        extends |-> decl.extends, implements |-> decl.implements,
        methods |-> [i \in 1..Len(decl.methods) |->
                       [name |-> decl.methods[i], filePath |-> p,
                        line |-> Len(classes) + 1 + i, column |-> 3,
                        isStatic |-> (i = 1)]]])
  /\ UNCHANGED <<files, functions, imports, hints, nodeMap, edgeMap,
                 fileToNodes, result, prevResult, passes>>
  /\ UNCHANGED toolVars

\* analyzeSourceFile: imports.push(importInfo) for an import declaration of
\* file p.  ImportInfo has no field for p; importer keeps it for the
\* properties and no operator of the engine reads it.
VisitImport(p, specifier, names) ==
  /\ passes = 0
  /\ FactCount < MaxFacts
  /\ IsListed(p)
  /\ IF imports = <<>> THEN TRUE
     ELSE FileIndex(imports[Len(imports)].importer) <= FileIndex(p)
  /\ imports' = Append(imports,
       [from |-> ResolveSpecifier(specifier, p), imports |-> names,
        isDefault |-> FALSE, isNamespace |-> FALSE, importer |-> p])
  /\ UNCHANGED <<files, functions, classes, hints, nodeMap, edgeMap,
                 fileToNodes, result, prevResult, passes>>
  /\ UNCHANGED toolVars

\* a call expression in the source file of p
VisitCall(p, callee) ==
  /\ passes = 0
  /\ FactCount < MaxFacts
  /\ IsListed(p)
  /\ files' = [files EXCEPT ![FileIndex(p)].calls = Append(@, callee)]
  /\ UNCHANGED <<functions, classes, imports, hints, nodeMap, edgeMap,
                 fileToNodes, result, prevResult, passes>>
  /\ UNCHANGED toolVars

\* extractGraphData(analyzer, analysisResult, h.targetFile, ...)
Pass(h) ==
  LET st == BuildGraph(Engine, Facts)
  IN  /\ nodeMap' = st.n
      /\ edgeMap' = st.e
      /\ fileToNodes' = st.f
      /\ result' = ResultOf(st, Facts, h)
      /\ prevResult' = result
      /\ hints' = h
      /\ passes' = passes + 1
      /\ UNCHANGED <<files, functions, classes, imports>>
      /\ UNCHANGED toolVars

\* the first pass on the analysis result
ExtractGraphData(h) ==
  /\ passes = 0
  /\ Pass(h)

\* the same call once more: same engine, same facts, same hints
ExtractAgain ==
  /\ passes > 0
  /\ passes < MaxPasses
  /\ Pass(hints)

Next ==
  \/ \E p \in Range(Paths) : ReadFile(p)
  \/ \E p \in Range(Paths), name \in FunctionNames : VisitFunction(p, name)
  \/ \E p \in Range(Paths), decl \in ClassDecls : VisitClass(p, decl)
  \/ \E p \in Range(Paths), specifier \in Specifiers, names \in ImportLists :
       VisitImport(p, specifier, names)
  \/ \E p \in CallFiles, callee \in Callees : VisitCall(p, callee)
  \/ \E h \in HintChoices : ExtractGraphData(h)
  \/ ExtractAgain

Spec == Init /\ [][Next]_vars

-----------------------------------------------------------------------------
(* File hints against a workspace with directories *)

MaxKnownFiles == 3

Q_xa == <<"/", "x", "a", ".", "t", "s">>
Q_da == <<"/", "d", "/", "a", ".", "t", "s">>
Q_sa == <<"/", "s", "/", "a", ".", "t", "s">>
H_sa == <<"s", "/", "a", ".", "t", "s">>

\* uri.fsPath of the files findFiles may list, in any order
KnownPaths == {P_a, Q_xa, Q_da, Q_sa}

\* params.targetFile: a file name, a relative path, an absolute path
FileHints == {H_a, H_sa, H_b, Q_da}

\* analyzeWorkspace: fileInfos.push({path, content}) for the next uri
ListFile(p) ==
  /\ passes = 0
  /\ Len(files) < MaxKnownFiles
  /\ ~IsListed(p)
  /\ files' = Append(files, [path |-> p, calls |-> <<>>])
  /\ UNCHANGED <<functions, classes, imports, hints, nodeMap, edgeMap,
                 fileToNodes, result, prevResult, passes>>
  /\ UNCHANGED toolVars

\* extractGraphData(analyzer, analysisResult, targetFile)
ExtractForTargetFile(targetFile) ==
  ExtractGraphData([NoHints EXCEPT !.targetFile = Some(targetFile)])

NextResolve ==
  \/ \E p \in KnownPaths : ListFile(p)
  \/ \E targetFile \in FileHints : ExtractForTargetFile(targetFile)

SpecResolve == Init /\ [][NextResolve]_vars

-----------------------------------------------------------------------------
(* Direct ingestion: createGraphFromLLMSpec.  The ids of the caller are    *)
(* tuples of characters, as the code takes them apart for the file path.   *)

MaxLLMNodes == 2
MaxLLMEdges == 2

NodeTypes == {"file", "function", "class", "method", "interface", "type", "variable"}
EdgeTypes == {"import", "export", "call", "extends", "implements", "reference"}

\* metadata: {}
EmptyMeta == [kind |-> "empty"]

StartsWith(s, prefix) ==
  Len(prefix) <= Len(s) /\ SubSeq(s, 1, Len(prefix)) = prefix

\* the alternatives of /^(file|function|class|method):/
KindPrefixes ==
  << <<"f", "i", "l", "e", ":">>,
     <<"f", "u", "n", "c", "t", "i", "o", "n", ":">>,
     <<"c", "l", "a", "s", "s", ":">>,
     <<"m", "e", "t", "h", "o", "d", ":">> >>

\* id.replace(/^(file|function|class|method):/, '')
StripKind(id) ==
  LET matching == {i \in 1..Len(KindPrefixes) : StartsWith(id, KindPrefixes[i])}
  IN  IF matching = {} THEN id
      ELSE SubSeq(id, Len(KindPrefixes[CHOOSE i \in matching :
                                         \A j \in matching : i <= j]) + 1, Len(id))

\* s.split(':')[0]
BeforeColon(s) ==
  LET colons == {i \in 1..Len(s) : s[i] = ":"}
  IN  IF colons = {} THEN s
      ELSE SubSeq(s, 1, (CHOOSE i \in colons : \A j \in colons : i <= j) - 1)

\* LLMNodeType that passes the caller's tag through
LLMNodeType_asGiven(type) == type

\* lines 832-858: the switch on n.type
LLMNodeType(type) == IF type \in NodeTypes THEN type ELSE "file"

\* lines 873-896: the switch on e.type
LLMEdgeType(type) == IF type \in EdgeTypes THEN type ELSE "reference"

\* lines 860-869
LLMNode(n) ==
  [id |-> Str(n.id), label |-> n.label, type |-> LLMNodeType(n.type),
   filePath |-> IF n.filePath.some /\ n.filePath.v # <<>> THEN n.filePath.v
                ELSE BeforeColon(StripKind(n.id)),
   line |-> n.line, column |-> n.column, parentId |-> "",
   metadata |-> EmptyMeta]

\* lines 921-928; index counts from 0
LLMEdge(e, index) ==
  [id |-> "edge-" \o ToString(index), source |-> Str(e.source),
   target |-> Str(e.target), type |-> LLMEdgeType(e.type),
   label |-> IF e.label.some /\ e.label.v # "" THEN e.label.v ELSE "contains",
   metadata |-> EmptyMeta]

\* graphNodes.slice(0, 5).map((n) => n.id)
AvailableIds(graphNodes) ==
  [i \in 1..(IF Len(graphNodes) < 5 THEN Len(graphNodes) ELSE 5) |-> graphNodes[i].id]

\* lines 898-919: the console.warn lines for one edge
LLMEdgeWarnings(e, index, graphNodes) ==
  LET sourceExists == \E i \in 1..Len(graphNodes) : graphNodes[i].id = Str(e.source)
      targetExists == \E i \in 1..Len(graphNodes) : graphNodes[i].id = Str(e.target)
  IN  (IF ~sourceExists
       THEN << [edge |-> index, notFound |-> "Source", id |-> Str(e.source)],
               [available |-> AvailableIds(graphNodes)] >>
       ELSE <<>>)
      \o
      (IF ~targetExists
       THEN << [edge |-> index, notFound |-> "Target", id |-> Str(e.target)],
               [available |-> AvailableIds(graphNodes)] >>
       ELSE <<>>)

\* lines 811-952: the GraphData returned
createGraphFromLLMSpec(nodes, edges) ==
  [nodes |-> [i \in 1..Len(nodes) |-> LLMNode(nodes[i])],
   edges |-> [i \in 1..Len(edges) |-> LLMEdge(edges[i], i - 1)]]

\* lines 872-918: what the call writes with console.warn
LLMSpecWarnings(nodes, edges) ==
  LET graphNodes == createGraphFromLLMSpec(nodes, edges).nodes
  IN  FoldSeq(LAMBDA acc, i : acc \o LLMEdgeWarnings(edges[i], i - 1, graphNodes),
              <<>>, [i \in 1..Len(edges) |-> i])

Id_fileA == <<"f", "i", "l", "e", ":", "/", "a", ".", "t", "s">>
Id_fooB == <<"f", "u", "n", "c", "t", "i", "o", "n", ":", "/", "b", ".", "t", "s",
             ":", "f", "o", "o">>
Id_x == <<"x">>
Id_ghost == <<"g", "h", "o", "s", "t">>

\* params.nodes entries: a file without filePath, a function with
\* filePath, line and column, a node with an unknown tag and an empty path
LLMNodes ==
  { [id |-> Id_fileA, label |-> "a.ts", type |-> "file", filePath |-> None,
     line |-> 0, column |-> 0],
    [id |-> Id_fooB, label |-> "foo", type |-> "function", filePath |-> Some(P_b),
     line |-> 3, column |-> 1],
    [id |-> Id_x, label |-> "X", type |-> "module", filePath |-> Some(<<>>),
     line |-> 7, column |-> 0] }

\* params.edges entries
LLMEdges ==
  { [source |-> Id_fooB, target |-> Id_fileA, type |-> "call",
     label |-> Some("calls")],
    [source |-> Id_fileA, target |-> Id_ghost, type |-> "uses", label |-> None],
    [source |-> Id_ghost, target |-> Id_x, type |-> "export", label |-> Some("")] }

SeqsUpTo(S, n) == UNION {[1..k -> S] : k \in 0..n}

\* a call of createGraphFromLLMSpec(nodes, edges)
IngestLLMSpec(nodes, edges) ==
  /\ result' = createGraphFromLLMSpec(nodes, edges)
  /\ console' = LLMSpecWarnings(nodes, edges)
  /\ params' = [NoParams EXCEPT !.nodes = Some(nodes), !.edges = Some(edges)]
  /\ UNCHANGED <<files, functions, classes, imports, hints, nodeMap, edgeMap,
                 fileToNodes, prevResult, passes>>
  /\ UNCHANGED <<workspaceFolders, token, pc, viewGraphData, toolResult,
                 analysed, updated, graphAtStart, invocations>>
  /\ UNCHANGED <<webview, posted, event, refresh, walk>>

NextIngest ==
  \E nodes \in SeqsUpTo(LLMNodes, MaxLLMNodes), edges \in SeqsUpTo(LLMEdges, MaxLLMEdges) :
    IngestLLMSpec(nodes, edges)

SpecIngest == Init /\ [][NextIngest]_vars

-----------------------------------------------------------------------------
(* CodemapTool.invoke.  One invocation is in flight at a time; it runs     *)
(* from one await to the next without interruption.                        *)

MaxInvocations == 2

\* what analyzeWorkspace resolves with: an empty workspace, a.ts importing
\* foo from b.ts, and a.ts declaring class Dog
W_empty == [files |-> <<>>, functions |-> <<>>, classes |-> <<>>, imports |-> <<>>]

W_A ==
  [files |-> <<[path |-> P_a, calls |-> <<>>], [path |-> P_b, calls |-> <<>>]>>,
   functions |-> <<[name |-> "foo", filePath |-> P_b, line |-> 1, column |-> 1,
                    isExported |-> TRUE]>>,
   classes |-> <<>>,
   imports |-> <<[from |-> ResolveSpecifier(S_b, P_a), imports |-> <<"foo">>,
                  isDefault |-> FALSE, isNamespace |-> FALSE, importer |-> P_a]>>]

W_Dog ==
  [files |-> <<[path |-> P_a, calls |-> <<>>]>>,
   functions |-> <<>>,
   classes |-> <<[name |-> "Dog", filePath |-> P_a, line |-> 1, column |-> 1,
                  isExported |-> TRUE, extends |-> "Animal", implements |-> <<>>,
                  methods |-> <<[name |-> "run", filePath |-> P_a, line |-> 2,
                                 column |-> 3, isStatic |-> FALSE]>>]>>,
   imports |-> <<>>]

\* a workspace with a source file too deep for the call walk
W_Deep ==
  [files |-> <<[path |-> P_a, calls |-> <<"foo">>], [path |-> P_d, calls |-> <<>>]>>,
   functions |-> <<[name |-> "foo", filePath |-> P_a, line |-> 1, column |-> 1,
                    isExported |-> TRUE]>>,
   classes |-> <<>>,
   imports |-> <<>>]

AnalysisResults == {W_empty, W_A, W_Dog, W_Deep}

FooHint ==
  [NoHints EXCEPT !.relatedFunctions = Some(<<[name |-> "foo", filePath |-> H_b]>>)]

LLMNode_fileA == CHOOSE n \in LLMNodes : n.id = Id_fileA
LLMEdge_toGhost == CHOOSE e \in LLMEdges : e.target = Id_ghost

\* options.input of an invocation
ToolParams ==
  { NoParams,
    [NoParams EXCEPT !.workspacePath = TRUE],
    [NoParams EXCEPT !.workspacePath = TRUE, !.hints = FooHint],
    [NoParams EXCEPT !.workspacePath = TRUE, !.nodes = Some(<<LLMNode_fileA>>),
                     !.edges = Some(<<LLMEdge_toGhost>>)],
    [NoParams EXCEPT !.workspacePath = TRUE, !.nodes = Some(<<LLMNode_fileA>>)],
    [NoParams EXCEPT !.nodes = Some(<<>>), !.edges = Some(<<>>)] }

InitTool ==
  /\ files = <<>>
  /\ functions = <<>>
  /\ classes = <<>>
  /\ imports = <<>>
  /\ hints = NoHints
  /\ nodeMap = <<>>
  /\ edgeMap = <<>>
  /\ fileToNodes = <<>>
  /\ result = EmptyGraph
  /\ prevResult = EmptyGraph
  /\ passes = 0
  /\ workspaceFolders \in BOOLEAN
  /\ params = NoParams
  /\ token = FALSE
  /\ pc = "idle"
  /\ viewGraphData = NoGraph
  /\ toolResult = "none"
  /\ console = <<>>
  /\ analysed = FALSE
  /\ updated = FALSE
  /\ graphAtStart = NoGraph
  /\ invocations = 0
  /\ webview = "none"
  /\ posted = <<>>
  /\ event = NoEvent
  /\ refresh = NoRefresh
  /\ walk = NoWalk

\* Invoke that goes on to the analysis without looking at workspacePath
Invoke_noPathCheck(p) ==
  /\ pc = "idle"
  /\ invocations < MaxInvocations
  /\ params' = p
  /\ token' = FALSE
  /\ graphAtStart' = viewGraphData
  /\ updated' = FALSE
  /\ invocations' = invocations + 1
  /\ pc' = "analyzeWorkspace" /\ analysed' = TRUE /\ toolResult' = "none"
  /\ UNCHANGED engineVars
  /\ UNCHANGED <<workspaceFolders, viewGraphData, console>>
  /\ UNCHANGED <<webview, posted, event, refresh, walk>>

\* invoke, lines 90-104: up to the await of analyzeWorkspace, or the throw
\* of line 96 caught at line 165
Invoke(p) ==
  /\ pc = "idle"
  /\ invocations < MaxInvocations
  /\ params' = p
  /\ token' = FALSE
  /\ graphAtStart' = viewGraphData
  /\ updated' = FALSE
  /\ invocations' = invocations + 1
  /\ IF p.workspacePath \/ workspaceFolders
     THEN pc' = "analyzeWorkspace" /\ analysed' = TRUE /\ toolResult' = "none"
     ELSE pc' = "idle" /\ analysed' = FALSE /\ toolResult' = "failed"
  /\ UNCHANGED engineVars
  /\ UNCHANGED <<workspaceFolders, viewGraphData, console>>
  /\ UNCHANGED <<webview, posted, event, refresh, walk>>

\* the host requests cancellation while the invocation waits
Cancel ==
  /\ pc # "idle"
  /\ ~token
  /\ token' = TRUE
  /\ UNCHANGED engineVars
  /\ UNCHANGED <<workspaceFolders, params, pc, viewGraphData, toolResult, console,
                 analysed, updated, graphAtStart, invocations>>
  /\ UNCHANGED <<webview, posted, event, refresh, walk>>

\* analyzeWorkspace rejects (findFiles fails): the catch of lines 165-175
AnalysisFailed ==
  /\ pc = "analyzeWorkspace"
  /\ pc' = "idle"
  /\ toolResult' = "failed"
  /\ UNCHANGED engineVars
  /\ UNCHANGED <<workspaceFolders, params, token, viewGraphData, console,
                 analysed, updated, graphAtStart, invocations>>
  /\ UNCHANGED <<webview, posted, event, refresh, walk>>

\* analyzeWorkspace resolves with ws; invoke lines 106-140: the cancellation
\* test, then the supplied graph to the view, or the call of
\* extractGraphData, which runs to its end before invoke waits for it
AnalysisDone(ws) ==
  /\ pc = "analyzeWorkspace"
  /\ files' = ws.files
  /\ functions' = ws.functions
  /\ classes' = ws.classes
  /\ imports' = ws.imports
  /\ IF token
     THEN /\ toolResult' = "cancelled"
          /\ pc' = "idle"
          /\ UNCHANGED <<hints, nodeMap, edgeMap, fileToNodes, result, prevResult,
                         passes, viewGraphData, console, updated, posted, event>>
     ELSE IF params.nodes.some /\ params.edges.some
     THEN /\ updateGraph(createGraphFromLLMSpec(params.nodes.v, params.edges.v))
          /\ event' = UpdateEvent(createGraphFromLLMSpec(params.nodes.v, params.edges.v))
          /\ console' = LLMSpecWarnings(params.nodes.v, params.edges.v)
          /\ updated' = TRUE
          /\ toolResult' = "generatedFromSpec"
          /\ pc' = "idle"
          /\ UNCHANGED <<hints, nodeMap, edgeMap, fileToNodes, result, prevResult,
                         passes>>
     ELSE IF Throws(ws)
     THEN LET st == BuildGraphUntilThrow(Engine, ws)
          IN  /\ nodeMap' = st.n
              /\ edgeMap' = st.e
              /\ fileToNodes' = st.f
              /\ hints' = params.hints
              /\ passes' = passes + 1
              /\ pc' = "extractGraphDataRejected"
              /\ UNCHANGED <<result, prevResult, viewGraphData, console, updated,
                             toolResult, posted, event>>
     ELSE LET st == BuildGraph(Engine, ws)
          IN  /\ nodeMap' = st.n
              /\ edgeMap' = st.e
              /\ fileToNodes' = st.f
              /\ result' = ResultOf(st, ws, params.hints)
              /\ prevResult' = result
              /\ hints' = params.hints
              /\ passes' = passes + 1
              /\ pc' = "extractGraphData"
              /\ UNCHANGED <<viewGraphData, console, updated, toolResult,
                             posted, event>>
  /\ UNCHANGED <<workspaceFolders, params, token, analysed, graphAtStart, invocations>>
  /\ UNCHANGED <<webview, refresh, walk>>

\* ExtractDone without the cancellation test of line 142
ExtractDone_unchecked ==
  /\ pc = "extractGraphData"
  /\ pc' = "idle"
  /\ updateGraph(result)
  /\ event' = UpdateEvent(result)
  /\ updated' = TRUE
  /\ toolResult' = "generated"
  /\ UNCHANGED engineVars
  /\ UNCHANGED <<workspaceFolders, params, token, console, analysed, graphAtStart,
                 invocations>>
  /\ UNCHANGED <<webview, refresh, walk>>

\* invoke lines 142-164, after the await of extractGraphData
ExtractDone ==
  /\ pc = "extractGraphData"
  /\ pc' = "idle"
  /\ IF token
     THEN /\ toolResult' = "cancelled"
          /\ UNCHANGED <<viewGraphData, updated, posted, event>>
     ELSE /\ updateGraph(result)
          /\ event' = UpdateEvent(result)
          /\ updated' = TRUE
          /\ toolResult' = "generated"
  /\ UNCHANGED engineVars
  /\ UNCHANGED <<workspaceFolders, params, token, console, analysed, graphAtStart,
                 invocations>>
  /\ UNCHANGED <<webview, refresh, walk>>

\* the promise of extractGraphData is rejected: the catch of lines 165-175
ExtractFailed ==
  /\ pc = "extractGraphDataRejected"
  /\ pc' = "idle"
  /\ toolResult' = "failed"
  /\ UNCHANGED engineVars
  /\ UNCHANGED <<workspaceFolders, params, token, viewGraphData, console,
                 analysed, updated, graphAtStart, invocations>>
  /\ UNCHANGED <<webview, posted, event, refresh, walk>>

NextTool ==
  \/ \E p \in ToolParams : Invoke(p)
  \/ Cancel
  \/ AnalysisFailed
  \/ \E ws \in AnalysisResults : AnalysisDone(ws)
  \/ ExtractDone
  \/ ExtractFailed

SpecTool == InitTool /\ [][NextTool]_vars

-----------------------------------------------------------------------------
(* Properties *)

\* the graph the last pass built, before filtering
Built == [nodes |-> nodeMap, edges |-> edgeMap]

NoDupIds(list) ==
  \A i, j \in 1..Len(list) : list[i].id = list[j].id => i = j

ResultIds == IdsOf(result.nodes)

\* C1: a second pass on the same engine with the same facts and the same
\* hints returns the node list and the edge list of the first, and no id
\* occurs twice in a returned list.
C1_Idempotent ==
  /\ passes >= 1 => NoDupIds(result.nodes) /\ NoDupIds(result.edges)
  /\ passes >= 2 => result = prevResult

C1_Witness ==
  /\ passes = 2
  /\ HintsGiven(hints)
  /\ \E e \in Range(result.edges) : e.type = "import"
  /\ Len(result.nodes) < Len(nodeMap)

\* C2: for every import fact of file A that imports n from a module
\* resolving to file B, where B declares a function or class labelled n,
\* the graph has an import edge from A's file node to B's file node and an
\* import edge from a node of A to B's node labelled n; in Scenario A there
\* are 2 file nodes and 1 function node.
ScenarioA ==
  /\ Len(files) = 2
  /\ files[1].calls = <<>> /\ files[2].calls = <<>>
  /\ Len(functions) = 1 /\ functions[1].name = "foo" /\ functions[1].filePath = P_b
  /\ classes = <<>>
  /\ Len(imports) = 1 /\ imports[1].importer = P_a /\ imports[1].from = P_b
  /\ imports[1].imports = <<"foo">>

C2_ImportEdgesFromImporter ==
  passes >= 1 =>
    /\ \A i \in 1..Len(imports) : \A k \in 1..Len(imports[i].imports) :
         LET A == imports[i].importer
             B == imports[i].from
             n == imports[i].imports[k]
             declared == {m \in Range(nodeMap) :
                            /\ m.filePath = B /\ m.label = n
                            /\ m.type \in {"function", "class"}}
         IN  (IsListed(B) /\ declared # {}) =>
               /\ \E e \in Range(edgeMap) :
                    e.type = "import" /\ e.source = FileId(A) /\ e.target = FileId(B)
               /\ \A m \in declared : \E e \in Range(edgeMap) :
                    /\ e.type = "import" /\ e.target = m.id
                    /\ \E src \in Range(nodeMap) : src.id = e.source /\ src.filePath = A
    /\ ScenarioA =>
         /\ Cardinality({m \in Range(nodeMap) : m.type = "file"}) = 2
         /\ Cardinality({m \in Range(nodeMap) : m.type = "function"}) = 1

\* C3: both ends of every edge of a filtered result are ids of nodes of
\* that result.
C3_NoDanglingEdges ==
  (passes >= 1 /\ HintsGiven(hints)) =>
    \A e \in Range(result.edges) : e.source \in ResultIds /\ e.target \in ResultIds

C3_Witness ==
  /\ passes >= 1
  /\ HintsGiven(hints)
  /\ Len(result.edges) > 0
  /\ Len(result.edges) < Len(edgeMap)

\* C4: with a node of file F in a filtered result, every node of the built
\* graph whose file path is F is in that result.
C4_FileClosure ==
  (passes >= 1 /\ HintsGiven(hints)) =>
    \A n \in Range(result.nodes) : \A m \in Range(nodeMap) :
      m.filePath = n.filePath => m.id \in ResultIds

C4_Witness ==
  /\ passes >= 1
  /\ hints.focusNodes.some
  /\ HintCats(hints) = 1
  /\ Len(result.nodes) < Len(nodeMap)
  /\ \E n \in Range(result.nodes) :
       Cardinality({m \in Range(nodeMap) : m.filePath = n.filePath}) >= 3

\* C5: every focus id that is the id of a node of the built graph is the
\* id of a node of the filtered result, whatever the other hints.
C5_FocusKept ==
  (passes >= 1 /\ hints.focusNodes.some) =>
    \A id \in Range(hints.focusNodes.v) :
      id \in IdsOf(nodeMap) => id \in ResultIds

C5_Witness ==
  /\ passes >= 1
  /\ hints.focusNodes.some
  /\ HintCats(hints) = 2
  /\ \E id \in Range(hints.focusNodes.v) : id \in IdsOf(nodeMap)
  /\ \E id \in Range(hints.focusNodes.v) : id \notin IdsOf(nodeMap)

\* C6: after a pass, a node N with parentId P has exactly one "contains"
\* edge from P when P is the id of a node, and no "contains" edge points to
\* N when it is not.
ContainsEdges(N) ==
  {i \in 1..Len(edgeMap) :
     /\ edgeMap[i].type = "reference" /\ edgeMap[i].label = "contains"
     /\ edgeMap[i].target = N}

MethodFacts ==
  FoldSeq(LAMBDA acc, cls :
            acc \o [i \in 1..Len(cls.methods) |->
                      [cls |-> cls, method |-> cls.methods[i]]],
          <<>>, classes)

IsFirst(ids, i) == \A j \in 1..(i - 1) : ids[j] # ids[i]

C7_FirstFactWins ==
  passes >= 1 =>
    /\ NoDupIds(nodeMap)
    /\ LET ids == [i \in 1..Len(functions) |->
                     FunctionId(functions[i].filePath, functions[i].name)]
       IN  \A i \in 1..Len(functions) :
             IsFirst(ids, i) =>
               /\ MapHas(nodeMap, ids[i])
               /\ MapGet(nodeMap, ids[i]).line = functions[i].line
               /\ MapGet(nodeMap, ids[i]).column = functions[i].column
               /\ MapGet(nodeMap, ids[i]).parentId = FileId(functions[i].filePath)
               /\ MapGet(nodeMap, ids[i]).metadata.isExported = functions[i].isExported
    /\ LET ids == [i \in 1..Len(classes) |->
                     ClassId(classes[i].filePath, classes[i].name)]
       IN  \A i \in 1..Len(classes) :
             IsFirst(ids, i) =>
               /\ MapHas(nodeMap, ids[i])
               /\ MapGet(nodeMap, ids[i]).line = classes[i].line
               /\ MapGet(nodeMap, ids[i]).column = classes[i].column
               /\ MapGet(nodeMap, ids[i]).parentId = FileId(classes[i].filePath)
               /\ MapGet(nodeMap, ids[i]).metadata.isExported = classes[i].isExported
               /\ MapGet(nodeMap, ids[i]).metadata.extends = classes[i].extends
               /\ MapGet(nodeMap, ids[i]).metadata.implements = classes[i].implements
    /\ LET ms == MethodFacts
           ids == [i \in 1..Len(ms) |->
                     MethodId(ms[i].method.filePath, ms[i].cls.name, ms[i].method.name)]
       IN  \A i \in 1..Len(ms) :
             IsFirst(ids, i) =>
               /\ MapHas(nodeMap, ids[i])
               /\ MapGet(nodeMap, ids[i]).line = ms[i].method.line
               /\ MapGet(nodeMap, ids[i]).column = ms[i].method.column
               /\ MapGet(nodeMap, ids[i]).parentId =
                    ClassId(ms[i].method.filePath, ms[i].cls.name)
               /\ MapGet(nodeMap, ids[i]).metadata.isStatic = ms[i].method.isStatic

C7_Witness ==
  /\ passes >= 1
  /\ Len(functions) = 2
  /\ functions[1].name = functions[2].name
  /\ functions[1].filePath = functions[2].filePath
  /\ functions[1].line # functions[2].line

\* C8 as claimed: every edge of a built graph has the id
\* "<type>:<source>:<target>" and no two edges have the same id.
C8_TypePrefixedIds ==
  passes >= 1 =>
    /\ NoDupIds(edgeMap)
    /\ \A e \in Range(edgeMap) :
         e.id = e.type \o ":" \o e.source \o ":" \o e.target

\* C8 as amended: every edge of a built graph has the id
\* "<type>:<source>:<target>", except that a containment edge (type
\* reference, label "contains") has the id "parent:<source>:<target>"; no
\* two edges have the same id.
C8_EdgeIds ==
  passes >= 1 =>
    /\ NoDupIds(edgeMap)
    /\ \A e \in Range(edgeMap) :
         e.id = (IF e.type = "reference" /\ e.label = "contains"
                 THEN "parent" ELSE e.type) \o ":" \o e.source \o ":" \o e.target

C8_Witness ==
  /\ passes >= 1
  /\ \E e \in Range(edgeMap) : e.type = "reference" /\ e.label = "contains"
  /\ \E e \in Range(edgeMap) : e.type = "import"

\* C9: for a class fact C with superclass name S, the graph has an extends
\* edge from C's class node to a node labelled S exactly when a class node
\* labelled S exists, and its target is the first such class node in
\* node-creation order.
ClassNodesLabelled(S) ==
  {i \in 1..Len(nodeMap) : nodeMap[i].type = "class" /\ nodeMap[i].label = S}

C9_ExtendsFirstMatch ==
  passes >= 1 =>
    \A c \in Range(classes) :
      c.extends # "" =>
        LET cands == ClassNodesLabelled(c.extends)
            targets == {e.target : e \in
                          {x \in Range(edgeMap) :
                             /\ x.type = "extends"
                             /\ x.source = ClassId(c.filePath, c.name)
                             /\ \E m \in Range(nodeMap) :
                                  m.id = x.target /\ m.label = c.extends}}
        IN  IF cands = {} THEN targets = {}
            ELSE targets = {nodeMap[CHOOSE i \in cands : \A j \in cands : i <= j].id}

C9_Witness ==
  /\ passes >= 1
  /\ \E c \in Range(classes) :
       /\ c.extends # ""
       /\ Cardinality(ClassNodesLabelled(c.extends)) >= 2
       /\ ClassId(c.filePath, c.name) #
            nodeMap[CHOOSE i \in ClassNodesLabelled(c.extends) :
                      \A j \in ClassNodesLabelled(c.extends) : i <= j].id

\* C10: a single related-function hint {name, filePath} that matches a
\* function node puts that node and its file node in the result; a file
\* node of another file is in the result only if an edge of the built graph
\* joins a node of that file to a node of the result outside that file; in
\* Scenario A with the hint {foo, b.ts} the result is function:/b.ts:foo
\* and file:/b.ts.  (A file name matches the one listed file of that
\* basename: the basenames of Paths differ.)
SingleFunctionHint ==
  /\ HintCats(hints) = 1
  /\ hints.relatedFunctions.some
  /\ Len(hints.relatedFunctions.v) = 1
  /\ hints.relatedFunctions.v[1].filePath # <<>>

HintedFunctions ==
  {n \in Range(nodeMap) :
     /\ n.type = "function"
     /\ n.label = hints.relatedFunctions.v[1].name
     /\ Basename(n.filePath) = Basename(hints.relatedFunctions.v[1].filePath)}

C10_FunctionHint ==
  (passes >= 1 /\ SingleFunctionHint /\ HintedFunctions # {}) =>
    /\ \A n \in HintedFunctions :
         /\ n.id \in ResultIds
         /\ FileId(n.filePath) \in ResultIds
         /\ \A m \in Range(result.nodes) :
              (m.type = "file" /\ m.filePath # n.filePath) =>
                \E e \in Range(edgeMap) : \E x, y \in Range(result.nodes) :
                  /\ {e.source, e.target} = {x.id, y.id}
                  /\ x.filePath = m.filePath
                  /\ y.filePath # m.filePath
    /\ ScenarioA => ResultIds = {FunctionId(P_b, "foo"), FileId(P_b)}

C10_Witness ==
  /\ passes >= 1
  /\ SingleFunctionHint
  /\ ScenarioA
  /\ hints.relatedFunctions.v[1] = [name |-> "foo", filePath |-> H_b]
  /\ FunctionId(P_b, "foo") \in ResultIds

\* C11: a pass called with no target file, no related files, no related
\* functions, no related classes and no focus nodes returns the built graph
\* unfiltered: every node of the node map and every edge of the edge map.
C11_NoHintsFullGraph ==
  (passes >= 1 /\ \A c \in DOMAIN hints : ~hints[c].some) =>
    /\ result.nodes = nodeMap
    /\ result.edges = edgeMap

C11_Witness ==
  /\ passes >= 1
  /\ \A c \in DOMAIN hints : ~hints[c].some
  /\ Len(result.nodes) >= 3
  /\ Len(result.edges) >= 2
  /\ \E n, m \in Range(result.nodes) : n.type = "file" /\ m.type = "file" /\ n # m

\* C18: with a non-empty seed set, every node of the built graph joined to
\* a seed by a path of edges, each edge taken from source to target or
\* from target to source, is a node of the filtered result.
RECURSIVE Component(_, _)
Component(S, edges) ==
  LET T == S \cup {e.target : e \in {d \in edges : d.source \in S}}
             \cup {e.source : e \in {d \in edges : d.target \in S}}
  IN  IF T = S THEN S ELSE Component(T, edges)

Seeds == Range(SeedSet(Built, Facts, hints))

C18_ConnectedKept ==
  (passes >= 1 /\ HintsGiven(hints) /\ Seeds # {}) =>
    (Component(Seeds, Range(edgeMap)) \cap IdsOf(nodeMap)) \subseteq ResultIds

C18_Witness ==
  /\ passes >= 1
  /\ HintsGiven(hints)
  /\ \E e \in Range(edgeMap) :
       /\ e.type = "extends"
       /\ e.target \in Seeds
       /\ e.source \in ResultIds
       /\ MapGet(nodeMap, e.source).filePath # MapGet(nodeMap, e.target).filePath
       /\ \A d \in Range(edgeMap) :
            d.source \in Seeds => MapGet(nodeMap, d.target).filePath
                                    = MapGet(nodeMap, e.target).filePath

\* the file the target file hint of the last pass resolves to
Resolved == findTargetFilePath(hints.targetFile.v, Facts.files)

SameBasename ==
  {i \in 1..Len(files) : Basename(files[i].path) = Basename(hints.targetFile.v)}

\* C19: a non-absolute file hint resolves to the one known file whose
\* basename is the basename of the hint when there is exactly one such
\* file, and to one of the shortest full path among the known files of
\* that basename when there are several.
C19_BasenameResolution ==
  (passes >= 1 /\ hints.targetFile.some /\ ~IsAbsolute(hints.targetFile.v)
     /\ SameBasename # {}) =>
    /\ Resolved.found
    /\ \E i \in SameBasename :
         /\ Resolved.v = files[i].path
         /\ \A j \in SameBasename : Len(files[i].path) <= Len(files[j].path)
    /\ FileId(Resolved.v) \in ResultIds

\* the known files that end with the separator followed by the hint
SuffixMatches ==
  {i \in 1..Len(files) : EndsWith(files[i].path, <<"/">> \o hints.targetFile.v)}

\* C20: a relative file hint with a directory component that is a path
\* suffix of exactly one known file resolves to that file, whatever other
\* known files have the same basename.
C20_RelativePathResolution ==
  (passes >= 1 /\ hints.targetFile.some /\ ~IsAbsolute(hints.targetFile.v)
     /\ "/" \in Range(hints.targetFile.v)
     /\ Cardinality(SuffixMatches) = 1) =>
    /\ Resolved.found
    /\ \A i \in SuffixMatches : Resolved.v = files[i].path
    /\ \A i \in SuffixMatches : FileId(files[i].path) \in ResultIds

Ingested == params.nodes.some /\ params.edges.some

\* the edges of the last direct-ingestion call with an end that is not the
\* id of a supplied node
DanglingEdges ==
  {i \in 1..Len(params.edges.v) :
     \E end \in {params.edges.v[i].source, params.edges.v[i].target} :
       \A k \in 1..Len(params.nodes.v) : params.nodes.v[k].id # end}

\* C12: a direct-ingestion call with an edge whose source or target is not
\* the id of a supplied node returns a graph (no error), writes a
\* diagnostic for that edge, keeps the edge with its source and target ids
\* unchanged, and marks the edge as referencing a missing endpoint.
C12_DanglingEdgeFlagged ==
  Ingested =>
    \A i \in DanglingEdges :
      /\ \E w \in Range(console) : "edge" \in DOMAIN w /\ w.edge = i - 1
      /\ Len(result.edges) = Len(params.edges.v)
      /\ result.edges[i].source = Str(params.edges.v[i].source)
      /\ result.edges[i].target = Str(params.edges.v[i].target)
      /\ result.edges[i].metadata # EmptyMeta

\* C13 as stated: one node per supplied node and one edge per supplied
\* edge, in input order; a node keeps the caller's id, label, file path,
\* line and column, an edge the caller's source, target and label; only
\* the kind and type tags differ, normalised to the enumerations.
C13_EchoUnchanged ==
  Ingested =>
    /\ Len(result.nodes) = Len(params.nodes.v)
    /\ Len(result.edges) = Len(params.edges.v)
    /\ \A i \in 1..Len(params.nodes.v) :
         /\ result.nodes[i].id = Str(params.nodes.v[i].id)
         /\ result.nodes[i].label = params.nodes.v[i].label
         /\ result.nodes[i].line = params.nodes.v[i].line
         /\ result.nodes[i].column = params.nodes.v[i].column
         /\ result.nodes[i].filePath = params.nodes.v[i].filePath.v
    /\ \A i \in 1..Len(params.edges.v) :
         /\ result.edges[i].source = Str(params.edges.v[i].source)
         /\ result.edges[i].target = Str(params.edges.v[i].target)
         /\ result.edges[i].label = params.edges.v[i].label.v

\* p is what is left of id before its first colon once a leading kind
\* prefix is taken away
PathOfId(p, id) ==
  /\ ":" \notin Range(p)
  /\ \E k \in 0..Len(KindPrefixes) :
       LET prefix == IF k = 0 THEN <<>> ELSE KindPrefixes[k]
           rest == SubSeq(id, Len(prefix) + Len(p) + 1, Len(id))
       IN  /\ id = prefix \o p \o rest
           /\ rest = <<>> \/ rest[1] = ":"
           /\ k = 0 => \A j \in 1..Len(KindPrefixes) : ~StartsWith(id, KindPrefixes[j])

\* C13: createGraphFromLLMSpec returns one node per supplied node and one
\* edge per supplied edge, in input order.  A node keeps the caller's id,
\* label, line and column, and the caller's file path when that is given and
\* not empty; otherwise its file path is the part of the id before the first
\* colon after a leading file:, function:, class: or method: prefix.  Edge i
\* (from 0) has id edge-i, the caller's source and target, and the caller's
\* label when given and not empty, otherwise the label contains.  A
\* recognised tag is kept, another node tag becomes file and another edge
\* tag becomes reference.
C13_EchoWithDefaults ==
  Ingested =>
    /\ Len(result.nodes) = Len(params.nodes.v)
    /\ Len(result.edges) = Len(params.edges.v)
    /\ \A i \in 1..Len(params.nodes.v) :
         LET n == params.nodes.v[i]
             out == result.nodes[i]
         IN  /\ out.id = Str(n.id)
             /\ out.label = n.label
             /\ out.line = n.line
             /\ out.column = n.column
             /\ out.type \in NodeTypes
             /\ n.type \in NodeTypes => out.type = n.type
             /\ n.type \notin NodeTypes => out.type = "file"
             /\ IF n.filePath.some /\ n.filePath.v # <<>>
                THEN out.filePath = n.filePath.v
                ELSE PathOfId(out.filePath, n.id)
    /\ \A i \in 1..Len(params.edges.v) :
         LET e == params.edges.v[i]
             out == result.edges[i]
         IN  /\ out.id = "edge-" \o ToString(i - 1)
             /\ out.source = Str(e.source)
             /\ out.target = Str(e.target)
             /\ out.type \in EdgeTypes
             /\ e.type \in EdgeTypes => out.type = e.type
             /\ e.type \notin EdgeTypes => out.type = "reference"
             /\ IF e.label.some /\ e.label.v # ""
                THEN out.label = e.label.v
                ELSE out.label = "contains"

C13_Witness ==
  /\ Ingested
  /\ Len(result.nodes) = 2
  /\ Len(result.edges) = 2
  /\ \E i \in 1..2 : params.nodes.v[i].type \notin NodeTypes
                      /\ result.nodes[i].filePath = <<"x">>
  /\ \E i \in 1..2 : ~params.nodes.v[i].filePath.some
                      /\ result.nodes[i].filePath = P_a
  /\ \E i \in 1..2 : ~params.edges.v[i].label.some
                      /\ result.edges[i].label = "contains"
                      /\ result.edges[i].type = "reference"

\* C14: an invocation that supplies both a node list and an edge list
\* hands the supplied graph to the view without running the workspace
\* analysis, the resolution or the filter in that invocation.
C14_DirectPathSkipsAnalysis ==
  (pc = "idle" /\ params.nodes.some /\ params.edges.some /\ updated) =>
    /\ viewGraphData.v = createGraphFromLLMSpec(params.nodes.v, params.edges.v)
    /\ ~analysed

\* C15: an invocation whose cancellation was requested before its graph
\* reached the view never calls updateGraph, and the view holds the graph it
\* held when the invocation started.
C15_CancelDiscards ==
  token => (~updated /\ viewGraphData = graphAtStart)

C15_Witness ==
  /\ token
  /\ pc = "idle"
  /\ toolResult = "cancelled"
  /\ passes = invocations
  /\ hints = params.hints
  /\ Len(result.nodes) > 0
  /\ viewGraphData = graphAtStart
  /\ viewGraphData.v # result

\* C16: an invocation with no workspace path in its parameters and no
\* workspace folder in the host returns one failure result in its first
\* step, starts neither the analysis nor a build pass, and leaves the graph
\* of the view as it was.
C16_NoWorkspaceFails ==
  [][(/\ pc = "idle"
      /\ invocations' = invocations + 1
      /\ ~params'.workspacePath
      /\ ~workspaceFolders)
       => (/\ pc' = "idle"
           /\ toolResult' = "failed"
           /\ ~analysed'
           /\ ~updated'
           /\ UNCHANGED engineVars
           /\ UNCHANGED viewGraphData)]_vars

C16_Witness ==
  /\ invocations = 2
  /\ pc = "idle"
  /\ toolResult = "failed"
  /\ ~params.workspacePath
  /\ ~workspaceFolders
  /\ ~analysed
  /\ passes = 1
  /\ viewGraphData.some
  /\ Len(viewGraphData.v.nodes) > 0

\* the maps of an engine on which no pass has run
FreshEngine == [n |-> <<>>, e |-> <<>>, f |-> <<>>]

\* C17: when a pass returns, the node map, the edge map, the file index
\* and the returned graph are those of a pass of a fresh engine on the
\* same facts and hints, whatever passes ran on the engine before.
C17_FreshEngineEquivalent ==
  pc = "extractGraphData" =>
    LET fresh == BuildGraph(FreshEngine, Facts)
    IN  /\ nodeMap = fresh.n
        /\ edgeMap = fresh.e
        /\ fileToNodes = fresh.f
        /\ result = ResultOf(fresh, Facts, hints)

C17_Witness ==
  /\ pc = "extractGraphData"
  /\ passes >= 2
  /\ Len(nodeMap) > 0
  /\ \E n \in Range(prevResult.nodes) : n.id \notin IdsOf(nodeMap)
  /\ \E n \in Range(nodeMap) : n.id \notin IdsOf(prevResult.nodes)

-----------------------------------------------------------------------------
(* Properties of the built graph and of the filter *)

\* the list s without its i-th element
Without(s, i) ==
  [j \in 1..(Len(s) - 1) |-> IF j < i THEN s[j] ELSE s[j + 1]]

\* the labels findFileByExport compares an imported name with
ExportLabels(st) ==
  {n.label : n \in {m \in Range(st.n) : m.type \in {"file", "function", "class"}}}

\* C21: an import fact with a bare module specifier, none of whose
\* imported names labels a file, function or class node, leaves the graph
\* as it is: the pass yields the node ids and the edge ids of a pass on
\* the facts without that import.
C21_BareImportNoEffect ==
  passes >= 1 =>
    \A i \in 1..Len(imports) :
      LET without == BuildGraph(FreshEngine,
                                [Facts EXCEPT !.imports = Without(imports, i)])
      IN  (/\ imports[i].from = Bare
           /\ Range(imports[i].imports) \cap ExportLabels(without) = {})
          => /\ IdsOf(nodeMap) = IdsOf(without.n)
             /\ IdsOf(edgeMap) = IdsOf(without.e)

\* the first function node registered in the file index for path p, "" if none
FirstFunctionOf(p) ==
  LET reg == FileNodes(fileToNodes, p)
      fns == {k \in 1..Len(reg) : MapGet(nodeMap, reg[k]).type = "function"}
  IN  IF fns = {} THEN ""
      ELSE reg[CHOOSE k \in fns : \A j \in fns : k <= j]

C25_EdgeEndsExist ==
  passes >= 1 =>
    \A e \in Range(edgeMap) :
      e.source \in IdsOf(nodeMap) /\ e.target \in IdsOf(nodeMap)

C25_Witness ==
  /\ passes >= 1
  /\ \E c \in Range(classes) :
       /\ c.extends # ""
       /\ findNodeByName(Engine, c.extends, "class") = ""
  /\ \E e \in Range(edgeMap) : e.type = "reference"

\* C26: the node set of a filtered result is closed under adjacency in the
\* built graph: no edge of the edge map has exactly one end in the result.
C26_ClosedUnderAdjacency ==
  (passes >= 1 /\ HintsGiven(hints)) =>
    \A e \in Range(edgeMap) :
      (e.source \in ResultIds) <=> (e.target \in ResultIds)

C26_Witness ==
  /\ passes >= 1
  /\ HintsGiven(hints)
  /\ \E e \in Range(edgeMap) :
       /\ e.source \in ResultIds
       /\ e.target \in ResultIds
       /\ e.source \notin Seeds
       /\ e.target \notin Seeds
  /\ \E e \in Range(edgeMap) : e.source \notin ResultIds /\ e.target \notin ResultIds

C28_KindsProduced ==
  passes >= 1 =>
    /\ \A n \in Range(nodeMap) : n.type \in {"file", "function", "class", "method"}
    /\ \A e \in Range(edgeMap) : e.type \in {"import", "call", "extends", "reference"}
    /\ \A n \in Range(result.nodes) : n.type \in {"file", "function", "class", "method"}
    /\ \A e \in Range(result.edges) : e.type \in {"import", "call", "extends", "reference"}

C28_Witness ==
  /\ passes >= 1
  /\ \E c \in Range(classes) :
       /\ c.implements # <<>>
       /\ \E k \in 1..Len(c.implements) :
            findNodeByName(Engine, c.implements[k], "class") # ""
  /\ \E e \in Range(edgeMap) : e.type = "extends"

-----------------------------------------------------------------------------
(* The view provider: updateGraph, resolveWebviewView and 'ready' *)

MaxPosts == 3

\* graphs the refresh command and the tool hand to updateGraph
ViewGraphs ==
  { EmptyGraph,
    GraphOf(BuildGraph(FreshEngine, W_A)),
    createGraphFromLLMSpec(<<LLMNode_fileA>>, <<LLMEdge_toGhost>>) }

\* provider.updateGraph(graphData), called by the refresh command or the tool
UpdateGraph(graphData) ==
  /\ Len(posted) < MaxPosts
  /\ updateGraph(graphData)
  /\ event' = UpdateEvent(graphData)
  /\ UNCHANGED engineVars
  /\ UNCHANGED <<workspaceFolders, params, token, pc, toolResult, console,
                 analysed, updated, graphAtStart, invocations>>
  /\ UNCHANGED <<webview, refresh, walk>>

\* resolveWebviewView, lines 16-63: the host shows the view for the first
\* time or again after it was disposed; the new webview has no message yet
ResolveWebviewView ==
  /\ webview # "live"
  /\ webview' = "live"
  /\ posted' = <<>>
  /\ event' = [event EXCEPT !.type = "resolveWebviewView"]
  /\ UNCHANGED engineVars
  /\ UNCHANGED <<workspaceFolders, params, token, pc, viewGraphData, toolResult,
                 console, analysed, updated, graphAtStart, invocations>>
  /\ UNCHANGED <<refresh, walk>>

\* the host disposes the webview; the provider keeps _view
Dispose ==
  /\ webview = "live"
  /\ webview' = "disposed"
  /\ event' = [event EXCEPT !.type = "dispose"]
  /\ UNCHANGED engineVars
  /\ UNCHANGED <<workspaceFolders, params, token, pc, viewGraphData, toolResult,
                 console, analysed, updated, graphAtStart, invocations>>
  /\ UNCHANGED <<posted, refresh, walk>>

\* lines 55-60: the webview sends 'ready'
Ready ==
  /\ webview = "live"
  /\ Len(posted) < MaxPosts
  /\ IF viewGraphData.some
     THEN updateGraph(viewGraphData.v)
     ELSE UNCHANGED <<viewGraphData, posted>>
  /\ event' = [event EXCEPT !.type = "ready"]
  /\ UNCHANGED engineVars
  /\ UNCHANGED <<workspaceFolders, params, token, pc, toolResult, console,
                 analysed, updated, graphAtStart, invocations>>
  /\ UNCHANGED <<webview, refresh, walk>>

NextView ==
  \/ \E graphData \in ViewGraphs : UpdateGraph(graphData)
  \/ ResolveWebviewView
  \/ Dispose
  \/ Ready

SpecView == Init /\ [][NextView]_vars

\* C30: the graph given to the last updateGraph call is the recorded
\* graph, with or without a webview, and after a 'ready' message the last
\* message posted to the webview is that graph in the form the webview
\* draws.
C30_ReadyDeliversRecorded ==
  /\ event.given => viewGraphData = [some |-> TRUE, v |-> event.graph]
  /\ ~event.given => viewGraphData = NoGraph
  /\ (event.type = "ready" /\ event.given) =>
       /\ posted # <<>>
       /\ posted[Len(posted)] =
            [type |-> "updateGraph", data |-> transformToD3Format(event.graph)]

\* a graph given before the view was resolved is the only message of the
\* webview after its 'ready'
C30_Witness ==
  /\ event.type = "ready"
  /\ event.given
  /\ Len(event.graph.nodes) > 0
  /\ Len(event.graph.edges) > 0
  /\ posted = <<[type |-> "updateGraph", data |-> transformToD3Format(event.graph)]>>

-----------------------------------------------------------------------------
(* The expansion loop of the filter, one iteration at a time *)

MaxSeeds == 2

OneFile == <<[path |-> P_a, calls |-> <<>>]>>

ClassFact(name, extends) ==
  [name |-> name, filePath |-> P_a, line |-> 1, column |-> 1, isExported |-> TRUE,
   extends |-> extends, implements |-> <<>>, methods |-> <<>>]

\* a class that names itself as its superclass
W_SelfExtends ==
  [files |-> OneFile, functions |-> <<>>,
   classes |-> <<ClassFact("Animal", "Animal")>>, imports |-> <<>>]

\* two classes that name each other as superclass
W_ExtendsCycle ==
  [files |-> OneFile, functions |-> <<>>,
   classes |-> <<ClassFact("Animal", "Dog"), ClassFact("Dog", "Animal")>>,
   imports |-> <<>>]

WalkNode(id, parentId) ==
  [id |-> id, label |-> id, type |-> "class", filePath |-> P_c, line |-> 0,
   column |-> 0, parentId |-> parentId, metadata |-> NoMeta]

\* a GraphData no pass builds: two nodes that are each other's parent, of
\* a file without a file node, and an edge to an id that is no node
G_ParentCycle ==
  [nodes |-> <<WalkNode("x", "y"), WalkNode("y", "x")>>,
   edges |-> <<[id |-> "reference:y:nowhere", source |-> "y", target |-> "nowhere",
                type |-> "reference", label |-> "", metadata |-> NoMeta]>>]

WalkGraphs ==
  {GraphOf(BuildGraph(FreshEngine, ws)) :
     ws \in {W_A, W_Dog, W_SelfExtends, W_ExtendsCycle}} \cup {G_ParentCycle}

\* relatedNodeIds before the loop: ids of nodes and ids that are no node
WalkSeeds(graphData) ==
  LET ids == IdsOf(graphData.nodes) \cup {"ghost"}
  IN  {s \in SeqsUpTo(ids, MaxSeeds) :
         /\ s # <<>>
         /\ \A i, j \in 1..Len(s) : s[i] = s[j] => i = j}

\* lines 268-270: the loop starts from a non-empty relatedNodeIds
InitWalk ==
  /\ files = <<>>
  /\ functions = <<>>
  /\ classes = <<>>
  /\ imports = <<>>
  /\ hints = NoHints
  /\ nodeMap = <<>>
  /\ edgeMap = <<>>
  /\ fileToNodes = <<>>
  /\ result = EmptyGraph
  /\ prevResult = EmptyGraph
  /\ passes = 0
  /\ workspaceFolders = TRUE
  /\ params = NoParams
  /\ token = FALSE
  /\ pc = "idle"
  /\ viewGraphData = NoGraph
  /\ toolResult = "none"
  /\ console = <<>>
  /\ analysed = FALSE
  /\ updated = FALSE
  /\ graphAtStart = NoGraph
  /\ invocations = 0
  /\ webview = "none"
  /\ posted = <<>>
  /\ event = NoEvent
  /\ refresh = NoRefresh
  /\ \E graphData \in WalkGraphs :
       \E seeds \in WalkSeeds(graphData) :
         walk = [graph |-> graphData, related |-> seeds, todo |-> seeds, done |-> {}]

\* one iteration of the while loop of line 272
WalkStep ==
  /\ walk.todo # <<>>
  /\ walk' = [graph |-> walk.graph] @@
             TraverseStep([related |-> walk.related, todo |-> walk.todo,
                           done |-> walk.done], walk.graph)
  /\ UNCHANGED engineVars
  /\ UNCHANGED <<workspaceFolders, params, token, pc, viewGraphData, toolResult,
                 console, analysed, updated, graphAtStart, invocations>>
  /\ UNCHANGED <<webview, posted, event, refresh>>

NextWalk == WalkStep

\* the loop is sequential code: an iteration that can run does run
SpecWalk == InitWalk /\ [][NextWalk]_vars /\ WF_vars(WalkStep)

\* C24: the expansion loop ends on every graph and seed set, with
\* self-loops, extends cycles, parentId cycles and ids that are no node.
C24_WalkTerminates == <>(walk.todo = <<>>)

C24_Witness ==
  /\ walk.todo = <<>>
  /\ "ghost" \in walk.done
  /\ \E e \in Range(walk.graph.edges) :
       /\ e.type = "extends"
       /\ e.source \in walk.done
       /\ e.target \in walk.done
       /\ \E e2 \in Range(walk.graph.edges) :
            e2.type = "extends" /\ e2.source = e.target /\ e2.target = e.source

C24_WitnessParentCycle ==
  /\ walk.graph = G_ParentCycle
  /\ walk.todo = <<>>
  /\ {"x", "y", "nowhere"} \subseteq Range(walk.related)

-----------------------------------------------------------------------------
(* A fact whose processing throws *)

\* the facts without the files whose call walk throws
Remaining(facts) ==
  [facts EXCEPT !.files = SelectSeq(facts.files, LAMBDA file : ~Overflows(file))]

\* C23: when the processing of a fact throws during a pass, the pass goes
\* on: extractGraphData returns, and what it returns is the graph of the
\* facts without the failing one.
C23_FailingFactSkipped ==
  (pc \in {"extractGraphData", "extractGraphDataRejected"} /\ Throws(Facts)) =>
    /\ pc = "extractGraphData"
    /\ result = ResultOf(BuildGraph(FreshEngine, Remaining(Facts)),
                         Remaining(Facts), hints)

-----------------------------------------------------------------------------
(* The refresh command and the tool on the one engine *)

MaxRefreshes == 2

\* invocations that go through extractGraphData
OverlapParams ==
  { [NoParams EXCEPT !.workspacePath = TRUE],
    [NoParams EXCEPT !.workspacePath = TRUE, !.hints = FooHint] }

\* the 'codemap.refresh' handler, lines 188-201 of the extension's entry
\* file: up to the await of analyzeWorkspace
RefreshStart ==
  /\ refresh.pc = "idle"
  /\ refresh.runs < MaxRefreshes
  /\ refresh' = [refresh EXCEPT !.runs = @ + 1,
                                !.pc = IF workspaceFolders THEN "analyzeWorkspace"
                                       ELSE "idle"]
  /\ UNCHANGED engineVars
  /\ UNCHANGED <<workspaceFolders, params, token, pc, viewGraphData, toolResult,
                 console, analysed, updated, graphAtStart, invocations>>
  /\ UNCHANGED <<webview, posted, event, walk>>

\* analyzeWorkspace rejects: the catch of lines 222-226
RefreshAnalysisFailed ==
  /\ refresh.pc = "analyzeWorkspace"
  /\ refresh' = [refresh EXCEPT !.pc = "idle"]
  /\ UNCHANGED engineVars
  /\ UNCHANGED <<workspaceFolders, params, token, pc, viewGraphData, toolResult,
                 console, analysed, updated, graphAtStart, invocations>>
  /\ UNCHANGED <<webview, posted, event, walk>>

\* RefreshAnalysisDone whose pass hands its graph to the waiting tool
\* invocation as well
RefreshAnalysisDone_sharedGraph(ws) ==
  /\ refresh.pc = "analyzeWorkspace"
  /\ ~Throws(ws)
  /\ LET st == BuildGraph(Engine, ws)
     IN  /\ nodeMap' = st.n
         /\ edgeMap' = st.e
         /\ fileToNodes' = st.f
         /\ passes' = passes + 1
         /\ result' = ResultOf(st, ws, NoHints)
         /\ refresh' = [refresh EXCEPT !.pc = "extractGraphData", !.facts = ws,
                                       !.graph = ResultOf(st, ws, NoHints)]
  /\ UNCHANGED <<files, functions, classes, imports, hints, prevResult>>
  /\ UNCHANGED <<workspaceFolders, params, token, pc, viewGraphData, toolResult,
                 console, analysed, updated, graphAtStart, invocations>>
  /\ UNCHANGED <<webview, posted, event, walk>>

\* analyzeWorkspace resolves with ws, lines 201-209: extractGraphData is
\* called with no hint and runs to its end before the handler waits for it
RefreshAnalysisDone(ws) ==
  /\ refresh.pc = "analyzeWorkspace"
  /\ IF Throws(ws)
     THEN LET st == BuildGraphUntilThrow(Engine, ws)
          IN  /\ nodeMap' = st.n
              /\ edgeMap' = st.e
              /\ fileToNodes' = st.f
              /\ passes' = passes + 1
              /\ refresh' = [refresh EXCEPT !.pc = "extractGraphDataRejected",
                                            !.facts = ws]
     ELSE LET st == BuildGraph(Engine, ws)
          IN  /\ nodeMap' = st.n
              /\ edgeMap' = st.e
              /\ fileToNodes' = st.f
              /\ passes' = passes + 1
              /\ refresh' = [refresh EXCEPT !.pc = "extractGraphData", !.facts = ws,
                                            !.graph = ResultOf(st, ws, NoHints)]
  /\ UNCHANGED <<files, functions, classes, imports, hints, result, prevResult>>
  /\ UNCHANGED <<workspaceFolders, params, token, pc, viewGraphData, toolResult,
                 console, analysed, updated, graphAtStart, invocations>>
  /\ UNCHANGED <<webview, posted, event, walk>>

\* lines 209-221, after the await of extractGraphData
RefreshExtractDone ==
  /\ refresh.pc = "extractGraphData"
  /\ refresh' = [refresh EXCEPT !.pc = "idle"]
  /\ updateGraph(refresh.graph)
  /\ event' = UpdateEvent(refresh.graph)
  /\ UNCHANGED engineVars
  /\ UNCHANGED <<workspaceFolders, params, token, pc, toolResult, console,
                 analysed, updated, graphAtStart, invocations>>
  /\ UNCHANGED <<webview, walk>>

\* the promise of extractGraphData is rejected: the catch of lines 222-226
RefreshExtractFailed ==
  /\ refresh.pc = "extractGraphDataRejected"
  /\ refresh' = [refresh EXCEPT !.pc = "idle"]
  /\ UNCHANGED engineVars
  /\ UNCHANGED <<workspaceFolders, params, token, pc, viewGraphData, toolResult,
                 console, analysed, updated, graphAtStart, invocations>>
  /\ UNCHANGED <<webview, posted, event, walk>>

NextOverlap ==
  \/ \E p \in OverlapParams : Invoke(p)
  \/ Cancel
  \/ AnalysisFailed
  \/ \E ws \in AnalysisResults : AnalysisDone(ws)
  \/ ExtractDone
  \/ ExtractFailed
  \/ RefreshStart
  \/ RefreshAnalysisFailed
  \/ \E ws \in AnalysisResults : RefreshAnalysisDone(ws)
  \/ RefreshExtractDone
  \/ RefreshExtractFailed

SpecOverlap == Init /\ [][NextOverlap]_vars

====
